---- MODULE Spec2Model ----
(***************************************************************************)
(* A model of CVE_THREAT_AGGREGATOR (src/main.py): the result cache        *)
(* MemCache with its single lock, the request handler in front of it, the  *)
(* aggregator _fetch_all_data with its per-feed pipelines, the fetch       *)
(* client _fetch_remote_data with its admission semaphore, and the MITRE   *)
(* and EPSS enrichment caches of CVE_DataProcessor_Engine.                 *)
(*                                                                         *)
(* Each part of the program has its own specification over the variables   *)
(* it owns (SpecCache, SpecAgg, SpecFetch, SpecAdmission, SpecEnrich); the *)
(* variables of the other parts keep their initial values.                 *)
(***************************************************************************)
EXTENDS Integers, Sequences, FiniteSets, TLC

(***************************************************************************)
(* Bounds of the model.                                                    *)
(***************************************************************************)
\* number of concurrent requests to /fetch_data
MaxCallers == 2
\* the TTL given to MemCache(ttl_min=...), in clock ticks
ttl_min == 2
\* the clock stops advancing here
MaxTime == 3
\* longest dataset a refresh returns
MaxRows == 2
\* most vulnerability references one feed yields
MaxRefs == 2
\* publication dates are 1 .. MaxDate
MaxDate == 2
\* number of concurrent _fetch_remote_data calls on one engine
MaxTasks == 2
\* most uncached ids one pipeline hands to _fetch_mitre_metadata
BurstSize == 501
\* vulnerability identifiers are 1 .. NumIds
NumIds == 2
\* longest id list given to an enrichment call
MaxIds == 2
\* longest 'data' list in an EPSS response
MaxItems == 2
\* how far below 0.0 and above 10.0 the scores tried go, in tenths
Beyond == 5
\* largest chunk size tried beside _MEM_CHUNK_SIZE
MaxChunk == 2
\* longest list of uncached ids given to the chunk loop
MaxUrls == 3
\* most entries of the feed given to _process_cve_batch
MaxEntries == 2
\* most items of the feed document _decode_rss_stream parses
MaxFeedItems == 2

(***************************************************************************)
(* Values.                                                                 *)
(***************************************************************************)
Callers == 1 .. MaxCallers

\* The rows of a dataset are abstract: datasets differ by their length.
RowValues == {1}

RECURSIVE SeqsUpTo(_, _)
SeqsUpTo(S, n) ==
    IF n = 0 THEN {<< >>}
    ELSE LET shorter == SeqsUpTo(S, n - 1)
         IN  shorter \cup {Append(s, x) : s \in {t \in shorter : Len(t) = n - 1}, x \in S}

\* What _fetch_all_data can return: a list of rows, the empty list included.
Datasets == SeqsUpTo(RowValues, MaxRows)

\* A Python value held in _data_ptr: None, or a list of rows.
None == [none |-> TRUE, rows |-> << >>]
ListOf(rows) == [none |-> FALSE, rows |-> rows]

\* Python truthiness of such a value: None and the empty list are falsy.
Truthy(v) == ~v.none /\ Len(v.rows) > 0

\* _timestamp = None
NoTime == 0 - 1

(***************************************************************************)
(* State of the result cache (MemCache, _SYS_CACHE) and of the requests.   *)
(***************************************************************************)
VARIABLES
    _data_ptr,      \* MemCache._data_ptr
    _timestamp,     \* MemCache._timestamp (NoTime: None)
    locked,         \* MemCache._mutex: asyncio.Lock._locked
    waiters,        \* MemCache._mutex: asyncio.Lock._waiters, in arrival order
    now,            \* datetime.now()
    pc,             \* where each request is
    gof,            \* how each request's _get_or_fetch call ended
    checked,        \* what each call saw when it ran _check_validity
    refreshEnd,     \* how the fetch_func invoked by each call ended
    response,       \* what _handle_data_request returned for each request
    lastStored,     \* history: the last value _update_cache stored
    cohort          \* history: the calls that started during one refresh

cacheVars == << _data_ptr, _timestamp, locked, waiters, now, pc, gof, checked,
                refreshEnd, response, lastStored, cohort >>

(***************************************************************************)
(* State of one aggregator run (_fetch_all_data) and of its pipelines.     *)
(***************************************************************************)
VARIABLES
    aggPc,          \* where _fetch_all_data is
    p1feed,         \* pass 1: the feed whose extraction is awaited
    p1open,         \* pass 1: the engine's session is open
    total,          \* _total_cve_count
    pipePc,         \* pass 2: where each feed's _process_data_chunk is
    pipeOpen,       \* pass 2: each pipeline's engine session is open
    pipeRefs,       \* pass 2: _cve_blocks of each pipeline
    pipeMitre,      \* pass 2: _fetch_mitre_metadata has completed
    pipeEpss,       \* pass 2: _fetch_epss_scores has completed
    pipeChunk,      \* pass 2: the rows each pipeline returned
    progress,       \* the progress bar's counter
    aggResult,      \* the rows _fetch_all_data returned
    csv,            \* dataframe.csv: None, or the rows written
    decodeFailed    \* history: the feeds one of whose decodes raised

aggVars == << aggPc, p1feed, p1open, total, pipePc, pipeOpen, pipeRefs, pipeMitre,
              pipeEpss, pipeChunk, progress, aggResult, csv, decodeFailed >>

(***************************************************************************)
(* State of one engine's fetch client (_fetch_remote_data).                *)
(***************************************************************************)
VARIABLES
    _net_io_handler,    \* the engine's session: "none", "open" or "closed"
    _thread_mutex,      \* the admission semaphore's free permits
    fPc,                \* where each _fetch_remote_data call is
    fResp,              \* history: the response each call received
    fResult             \* what each call returned

fetchVars == << _net_io_handler, _thread_mutex, fPc, fResp, fResult >>

(***************************************************************************)
(* State of the admission gates of the pass-2 engines, one per feed, with  *)
(* their requests counted instead of named.                                *)
(***************************************************************************)
VARIABLES
    admPhase,       \* where each pipeline is: idle, extract, enrich, done
    admWaiting,     \* _fetch_remote_data calls waiting for a permit
    admInflight,    \* _fetch_remote_data calls holding a permit, in session.get
    admEpss         \* the pipeline's EPSS call is in session.get (0 or 1)

admVars == << admPhase, admWaiting, admInflight, admEpss >>

(***************************************************************************)
(* State of one engine's enrichment caches and of the enrichment calls     *)
(* made on it.                                                             *)
(***************************************************************************)
VARIABLES
    _l1_mitre_cache,    \* id -> record, "absent" for an id without entry
    mPc,                \* _fetch_mitre_metadata: idle, fetching, returned, raised
    mIds,               \* its cve_id_array
    mUncached,          \* its _uncached_cve_ptrs
    mBlocks,            \* its _result_buf, "pending" where no answer yet
    mRet,               \* the map it returned
    mNet,               \* the fetches it issued
    mFirst,             \* history: the call before it, when that had the same ids
    _l1_epss_cache,     \* id -> score, "absent" for an id without entry
    ePc,                \* _fetch_epss_scores: idle, fetching, returned
    eIds,               \* its cve_id_array
    eUncached,          \* its _uncached_cve_ptrs
    eRet,               \* the map it returned
    eNet,               \* the requests it issued
    eFirst,             \* history: the call before it, when that had the same ids
    eRaised             \* history: its try block ended in the except clause

(***************************************************************************)
(* State of the engines of one run's pipelines: each pipeline constructs   *)
(* its own CVE_DataProcessor_Engine, with its own two caches.              *)
(***************************************************************************)
VARIABLES
    engMitre,       \* each engine's _l1_mitre_cache
    engEpss,        \* each engine's _l1_epss_cache
    lastCall        \* history: the last enrichment call, the ids it requested
                    \* from the registry and the ids some engine held before it

procVars == << engMitre, engEpss, lastCall >>

(***************************************************************************)
(* One application of the row join of _process_data_chunk, and one of the  *)
(* classifier _compute_threat_vector.                                      *)
(***************************************************************************)
VARIABLES
    jIn,            \* the reference, its MITRE record and its EPSS score
    jRow,           \* the row built from them
    cIn,            \* the classifier's argument
    cOut            \* what it returned

joinVars == << jIn, jRow >>
classVars == << cIn, cOut >>

(***************************************************************************)
(* State of the chunk loop of _fetch_mitre_metadata, run with a chunk size *)
(* of its own.                                                             *)
(***************************************************************************)
VARIABLES
    kPc,            \* "idle", "called" or "returned"
    kSize,          \* the chunk size (0: no call)
    kIds,           \* _uncached_cve_ptrs
    kReg,           \* what the registry answers for the URL of each id
    kTasks,         \* the ids whose URLs _task_buf requests, in task order
    kCache,         \* _l1_mitre_cache after the store loop
    kRet            \* the map returned

chunkVars == << kPc, kSize, kIds, kReg, kTasks, kCache, kRet >>

(***************************************************************************)
(* State of one engine's extraction, _process_cve_batch.                   *)
(***************************************************************************)
VARIABLES
    xPc,            \* "idle", "fetching" or "returned"
    xEntries,       \* feed_entries
    xArrived,       \* the detail fetches that have completed, in the order
                    \* they completed: the task and what it returned
    xOut            \* the list returned

extractVars == << xPc, xEntries, xArrived, xOut >>

(***************************************************************************)
(* State of one call of _decode_rss_stream.                                *)
(***************************************************************************)
VARIABLES
    dPc,            \* "idle", "called", "returned" or "raised"
    dItems,         \* the entries of the parsed feed document
    dEntries        \* the list returned

decodeVars == << dPc, dItems, dEntries >>
pureVars == << joinVars, classVars, chunkVars, extractVars, decodeVars >>

mitreVars == << _l1_mitre_cache, mPc, mIds, mUncached, mBlocks, mRet, mNet, mFirst >>
epssVars == << _l1_epss_cache, ePc, eIds, eUncached, eRet, eNet, eFirst, eRaised >>
enrichVars == << mitreVars, epssVars >>

vars == << cacheVars, aggVars, fetchVars, admVars, enrichVars, procVars, pureVars >>

notCacheVars == << aggVars, fetchVars, admVars, enrichVars, procVars, pureVars >>
notAggVars == << cacheVars, fetchVars, admVars, enrichVars, procVars, pureVars >>
notFetchVars == << cacheVars, aggVars, admVars, enrichVars, procVars, pureVars >>
notAdmVars == << cacheVars, aggVars, fetchVars, enrichVars, procVars, pureVars >>
notEnrichVars == << cacheVars, aggVars, fetchVars, admVars, procVars, pureVars >>
notProcVars == << cacheVars, aggVars, fetchVars, admVars, enrichVars, pureVars >>
notJoinVars == << cacheVars, aggVars, fetchVars, admVars, enrichVars, procVars, classVars,
                  chunkVars, extractVars,
                     decodeVars >>
notClassVars == << cacheVars, aggVars, fetchVars, admVars, enrichVars, procVars, joinVars,
                   chunkVars, extractVars,
                     decodeVars >>
notChunkVars == << cacheVars, aggVars, fetchVars, admVars, enrichVars, procVars, joinVars,
                   classVars, extractVars,
                     decodeVars >>
notDecodeVars == << cacheVars, aggVars, fetchVars, admVars, enrichVars, procVars, joinVars,
                    classVars, chunkVars, extractVars >>
notExtractVars == << cacheVars, aggVars, fetchVars, admVars, enrichVars, procVars, joinVars,
                     classVars, chunkVars,
                     decodeVars >>

(***************************************************************************)
(* MemCache.                                                               *)
(***************************************************************************)
\* _check_validity: data and timestamp present, and age below the TTL.
_check_validity ==
    IF ~Truthy(_data_ptr) \/ _timestamp = NoTime
    THEN FALSE
    ELSE now - _timestamp < ttl_min

\* _get_cache
_get_cache == _data_ptr

MutexBarging == TRUE

\* `async with self._mutex`: asyncio.Lock.acquire takes the lock at once when
\* it is free and nobody waits for it; otherwise the caller queues.
MutexFree == ~locked /\ waiters = << >>

WakeNobody(p, ws) == p

\* asyncio.Lock.release wakes the first waiter, which is then runnable.
WakeFirst(p, ws) == IF ws = << >> THEN p ELSE [p EXCEPT ![Head(ws)] = "woken"]

GofOnRaiseSwallowed == [kind |-> "returned", value |-> _data_ptr]

\* How _get_or_fetch ends when fetch_func raises: there is no except clause,
\* the exception leaves the `async with` block and reaches the caller.
GofOnRaise == [kind |-> "raised", value |-> None]

HandlerOnFailureReraised == [kind |-> "error", rows |-> << >>]

\* _handle_data_request's except branch: jsonify(_SYS_CACHE._get_cache() or []).
HandlerOnFailure ==
    [kind |-> "json", rows |-> IF Truthy(_get_cache) THEN _get_cache.rows ELSE << >>]

\* _handle_data_request's try branch: jsonify(the value _get_or_fetch returned).
HandlerOnSuccess(v) == [kind |-> "json", rows |-> v.rows]

NoGof == [kind |-> "none", value |-> None]
NoCheck == [seen |-> FALSE, data |-> None, age |-> 0, hasTime |-> FALSE, invoked |-> FALSE]
NoResponse == [kind |-> "none", rows |-> << >>]
NoCohort == [members |-> {}, active |-> {}, open |-> FALSE, fetches |-> 0,
             failed |-> FALSE, rets |-> [c \in Callers |-> None]]

\* What a call records when it runs _check_validity under the lock.
Seen(invoked) ==
    [seen |-> TRUE, data |-> _data_ptr,
     age |-> IF _timestamp = NoTime THEN 0 ELSE now - _timestamp,
     hasTime |-> _timestamp # NoTime, invoked |-> invoked]

CacheIdle ==
    /\ _data_ptr = None
    /\ _timestamp = NoTime
    /\ locked = FALSE
    /\ waiters = << >>
    /\ now = 0
    /\ pc = [c \in Callers |-> "idle"]
    /\ gof = [c \in Callers |-> NoGof]
    /\ checked = [c \in Callers |-> NoCheck]
    /\ refreshEnd = [c \in Callers |-> "none"]
    /\ response = [c \in Callers |-> NoResponse]
    /\ lastStored = None
    /\ cohort = NoCohort

\* The body of _get_or_fetch once the lock is held by call c, up to its first
\* suspension: a valid cache is returned at once (and the lock released),
\* otherwise fetch_func is invoked and c suspends in it, holding the lock.
\* ws is the lock's queue without c.
UnderLock(c, ws) ==
    IF _check_validity
    THEN /\ gof' = [gof EXCEPT ![c] = [kind |-> "returned", value |-> _get_cache]]
         /\ response' = [response EXCEPT ![c] = HandlerOnSuccess(_get_cache)]
         /\ checked' = [checked EXCEPT ![c] = Seen(FALSE)]
         /\ pc' = WakeFirst([pc EXCEPT ![c] = "done"], ws)
         /\ locked' = FALSE
         /\ cohort' = IF c \in cohort.active
                      THEN [cohort EXCEPT !.active = @ \ {c},
                                          !.rets = [@ EXCEPT ![c] = _get_cache]]
                      ELSE cohort
    ELSE /\ pc' = [pc EXCEPT ![c] = "fetching"]
         /\ checked' = [checked EXCEPT ![c] = Seen(TRUE)]
         /\ locked' = TRUE
         /\ cohort' = IF c \in cohort.active
                      THEN [cohort EXCEPT !.fetches = @ + 1]
                      ELSE IF cohort.active = {} /\ ws = << >>
                      THEN [NoCohort EXCEPT !.members = {c}, !.active = {c},
                                            !.open = TRUE, !.fetches = 1]
                      ELSE cohort
         /\ UNCHANGED << gof, response >>

\* GET /fetch_data: _handle_data_request calls _SYS_CACHE._get_or_fetch.  The
\* call takes the lock when it is free, and queues behind it otherwise.
Request(c) ==
    /\ pc[c] = "idle"
    /\ IF MutexFree
       THEN /\ UnderLock(c, waiters)
            /\ UNCHANGED waiters
       ELSE /\ waiters' = Append(waiters, c)
            /\ pc' = [pc EXCEPT ![c] = "waiting"]
            /\ cohort' = IF cohort.open
                         THEN [cohort EXCEPT !.members = @ \cup {c}, !.active = @ \cup {c}]
                         ELSE cohort
            /\ UNCHANGED << locked, gof, response, checked >>
    /\ UNCHANGED << _data_ptr, _timestamp, now, refreshEnd, lastStored >>
    /\ UNCHANGED notCacheVars

\* A woken waiter runs again: it leaves the queue, holds the lock and runs
\* the body of _get_or_fetch.
Resume(c) ==
    /\ pc[c] = "woken"
    /\ waiters # << >> /\ Head(waiters) = c
    /\ waiters' = Tail(waiters)
    /\ UnderLock(c, Tail(waiters))
    /\ UNCHANGED << _data_ptr, _timestamp, now, refreshEnd, lastStored >>
    /\ UNCHANGED notCacheVars

\* fetch_func returns d: _update_cache(d), return d, release the lock.
RefreshReturn(c, d) ==
    /\ pc[c] = "fetching"
    /\ _data_ptr' = ListOf(d)
    /\ _timestamp' = now
    /\ lastStored' = ListOf(d)
    /\ refreshEnd' = [refreshEnd EXCEPT ![c] = "returned"]
    /\ gof' = [gof EXCEPT ![c] = [kind |-> "returned", value |-> ListOf(d)]]
    /\ response' = [response EXCEPT ![c] = HandlerOnSuccess(ListOf(d))]
    /\ pc' = WakeFirst([pc EXCEPT ![c] = "done"], waiters)
    /\ locked' = FALSE
    /\ cohort' = IF c \in cohort.active
                 THEN [cohort EXCEPT !.active = @ \ {c}, !.open = FALSE,
                                     !.rets = [@ EXCEPT ![c] = ListOf(d)]]
                 ELSE cohort
    /\ UNCHANGED << waiters, now, checked >>
    /\ UNCHANGED notCacheVars

RefreshRaiseClearsCache(c) ==
    /\ pc[c] = "fetching"
    /\ _data_ptr' = None
    /\ _timestamp' = NoTime
    /\ refreshEnd' = [refreshEnd EXCEPT ![c] = "raised"]
    /\ gof' = [gof EXCEPT ![c] = GofOnRaise]
    /\ response' = [response EXCEPT ![c] = HandlerOnFailure]
    /\ pc' = WakeFirst([pc EXCEPT ![c] = "done"], waiters)
    /\ locked' = FALSE
    /\ cohort' = IF c \in cohort.active
                 THEN [cohort EXCEPT !.active = @ \ {c}, !.open = FALSE, !.failed = TRUE]
                 ELSE cohort
    /\ UNCHANGED << waiters, now, checked, lastStored >>
    /\ UNCHANGED notCacheVars

\* fetch_func raises: the lock is released on the way out, _get_or_fetch
\* ends as GofOnRaise says and the handler answers accordingly.
RefreshRaise(c) ==
    /\ pc[c] = "fetching"
    /\ refreshEnd' = [refreshEnd EXCEPT ![c] = "raised"]
    /\ gof' = [gof EXCEPT ![c] = GofOnRaise]
    /\ response' = [response EXCEPT ![c] =
                       IF GofOnRaise.kind = "raised" THEN HandlerOnFailure
                       ELSE HandlerOnSuccess(GofOnRaise.value)]
    /\ pc' = WakeFirst([pc EXCEPT ![c] = "done"], waiters)
    /\ locked' = FALSE
    /\ cohort' = IF c \in cohort.active
                 THEN [cohort EXCEPT !.active = @ \ {c}, !.open = FALSE, !.failed = TRUE]
                 ELSE cohort
    /\ UNCHANGED << _data_ptr, _timestamp, waiters, now, checked, lastStored >>
    /\ UNCHANGED notCacheVars

\* The response has been sent; the client may ask again.
Finish(c) ==
    /\ pc[c] = "done"
    /\ pc' = [pc EXCEPT ![c] = "idle"]
    /\ gof' = [gof EXCEPT ![c] = NoGof]
    /\ checked' = [checked EXCEPT ![c] = NoCheck]
    /\ refreshEnd' = [refreshEnd EXCEPT ![c] = "none"]
    /\ response' = [response EXCEPT ![c] = NoResponse]
    /\ UNCHANGED << _data_ptr, _timestamp, locked, waiters, now, lastStored, cohort >>
    /\ UNCHANGED notCacheVars

\* Time passes only while nothing is runnable: a woken waiter runs in the
\* next iteration of the event loop, before any measurable time has passed.
Tick ==
    /\ now < MaxTime
    /\ \A c \in Callers : pc[c] # "woken"
    /\ now' = now + 1
    /\ UNCHANGED << _data_ptr, _timestamp, locked, waiters, pc, gof, checked,
                    refreshEnd, response, lastStored, cohort >>
    /\ UNCHANGED notCacheVars

NextCache ==
    \/ \E c \in Callers : Request(c)
    \/ \E c \in Callers : Resume(c)
    \/ \E c \in Callers, d \in Datasets : RefreshReturn(c, d)
    \/ \E c \in Callers : RefreshRaise(c)
    \/ \E c \in Callers : Finish(c)
    \/ Tick

(***************************************************************************)
(* The aggregator _fetch_all_data and the per-feed pipeline                *)
(* _process_data_chunk.                                                    *)
(***************************************************************************)
\* len(_RSS_ADDR_ARRAY)
NFeeds == 2
Feeds == 1 .. NFeeds
Dates == 1 .. MaxDate
DateLists == SeqsUpTo(Dates, MaxRefs)

\* What decode and extraction can yield for feed f: a list of references,
\* each with the publication date of its bulletin; k is the reference's
\* place in the list.
RefSets(f) ==
    {[i \in 1 .. Len(ds) |-> [feed |-> f, date |-> ds[i], k |-> i]] :
        ds \in DateLists}

ConcatSkipsLast(chunks, i) ==
    IF i >= NFeeds THEN << >> ELSE chunks[i]

RECURSIVE Concat(_, _)
\* pd.concat of the chunks of feeds i .. NFeeds, in task order.
Concat(chunks, i) ==
    IF i > NFeeds THEN << >> ELSE chunks[i] \o Concat(chunks, i + 1)

RECURSIVE OrdersDesc(_, _)
\* The ways to list the positions I of s with no row before a row of a
\* later date.
OrdersDesc(s, I) ==
    IF I = {} THEN {<< >>}
    ELSE UNION {{<< i >> \o t : t \in OrdersDesc(s, I \ {i})} :
                  i \in {x \in I : \A y \in I : s[x].date >= s[y].date}}

\* The orders sort_values('Date de publication', ascending=False) can give
\* the rows of s: descending dates; the default kind, quicksort, is not a
\* stable sort, so rows of equal date come out in an order the build decides.
SortedByDateDesc(s) ==
    {[i \in 1 .. Len(s) |-> s[p[i]]] : p \in OrdersDesc(s, 1 .. Len(s))}

__aexit__skipped(open) == open

\* __aexit__: an engine whose session exists closes it; open tells whether
\* the engine holds an open session.
__aexit__(open) == IF open THEN FALSE ELSE open

\* The pipeline states in which the coroutine can still run.
Running == {"created", "extract", "enrich"}

AggIdle ==
    /\ aggPc = "idle"
    /\ p1feed = 0
    /\ p1open = FALSE
    /\ total = 0
    /\ pipePc = [f \in Feeds |-> "none"]
    /\ pipeOpen = [f \in Feeds |-> FALSE]
    /\ pipeRefs = [f \in Feeds |-> << >>]
    /\ pipeMitre = [f \in Feeds |-> FALSE]
    /\ pipeEpss = [f \in Feeds |-> FALSE]
    /\ pipeChunk = [f \in Feeds |-> << >>]
    /\ progress = 0
    /\ aggResult = << >>
    /\ csv = None
    /\ decodeFailed = {}

\* gather(*_task_queue): the pipelines are created, none has run yet.
StartPass2 ==
    /\ aggPc' = "pass2"
    /\ pipePc' = [f \in Feeds |-> "created"]

\* Pass 1, one turn of the loop for feed f: _decode_rss_stream(f) runs at
\* once; when it raises, the exception leaves the `async with` block (the
\* session is closed) and _fetch_all_data; otherwise _process_cve_batch is
\* awaited.
Pass1Decode(f, ok) ==
    IF ok
    THEN /\ aggPc' = "pass1"
         /\ p1feed' = f
         /\ p1open' = TRUE
         /\ UNCHANGED << decodeFailed, pipePc >>
    ELSE /\ aggPc' = "raised"
         /\ p1feed' = f
         /\ p1open' = __aexit__(TRUE)
         /\ decodeFailed' = decodeFailed \cup {f}
         /\ UNCHANGED pipePc

\* _fetch_all_data is called: the count is reset, the pass-1 engine is
\* entered and the first feed decoded.
AggStart(ok) ==
    /\ aggPc = "idle"
    /\ total' = 0
    /\ Pass1Decode(1, ok)
    /\ UNCHANGED << pipeOpen, pipeRefs, pipeMitre, pipeEpss, pipeChunk, progress,
                    aggResult, csv >>
    /\ UNCHANGED notAggVars

Pass1ExtractedOneFeed(refs, ok) ==
    /\ aggPc = "pass1"
    /\ refs \in RefSets(p1feed)
    /\ total' = total + Len(refs)
    /\ ok
    /\ p1open' = __aexit__(p1open)
    /\ StartPass2
    /\ UNCHANGED << p1feed, decodeFailed >>
    /\ UNCHANGED << pipeOpen, pipeRefs, pipeMitre, pipeEpss, pipeChunk, progress,
                    aggResult, csv >>
    /\ UNCHANGED notAggVars

\* Pass 1: the extraction of feed p1feed returns refs; they are counted and
\* the loop goes on with the next feed, or the engine is left and pass 2
\* starts.
Pass1Extracted(refs, ok) ==
    /\ aggPc = "pass1"
    /\ refs \in RefSets(p1feed)
    /\ total' = total + Len(refs)
    /\ IF p1feed < NFeeds
       THEN Pass1Decode(p1feed + 1, ok)
       ELSE /\ ok
            /\ p1open' = __aexit__(p1open)
            /\ StartPass2
            /\ UNCHANGED << p1feed, decodeFailed >>
    /\ UNCHANGED << pipeOpen, pipeRefs, pipeMitre, pipeEpss, pipeChunk, progress,
                    aggResult, csv >>
    /\ UNCHANGED notAggVars

\* asyncio.gather without return_exceptions: the first pipeline that raises
\* makes the awaiting _fetch_all_data raise; a failure after that is only
\* the task's own.
PipelineFailure == IF aggPc = "pass2" THEN "raised" ELSE aggPc

\* Pass 2, pipeline of feed f runs for the first time: the engine is
\* entered and the feed decoded; a decode failure closes the session and
\* ends the pipeline with the exception.
PipeStart(f, ok) ==
    /\ pipePc[f] = "created"
    /\ IF ok
       THEN /\ pipePc' = [pipePc EXCEPT ![f] = "extract"]
            /\ pipeOpen' = [pipeOpen EXCEPT ![f] = TRUE]
            /\ UNCHANGED << aggPc, decodeFailed >>
       ELSE /\ pipePc' = [pipePc EXCEPT ![f] = "raised"]
            /\ pipeOpen' = [pipeOpen EXCEPT ![f] = __aexit__(TRUE)]
            /\ decodeFailed' = decodeFailed \cup {f}
            /\ aggPc' = PipelineFailure
    /\ UNCHANGED << p1feed, p1open, total, pipeRefs, pipeMitre, pipeEpss, pipeChunk,
                    progress, aggResult, csv >>
    /\ UNCHANGED notAggVars

PipeExtractedAlwaysEnriches(f, refs) ==
    /\ pipePc[f] = "extract"
    /\ refs \in RefSets(f)
    /\ pipePc' = [pipePc EXCEPT ![f] = "enrich"]
    /\ pipeRefs' = [pipeRefs EXCEPT ![f] = refs]
    /\ UNCHANGED << pipeOpen, pipeChunk >>
    /\ UNCHANGED << aggPc, p1feed, p1open, total, pipeMitre, pipeEpss, progress,
                    aggResult, csv, decodeFailed >>
    /\ UNCHANGED notAggVars

\* Pass 2: _process_cve_batch returns refs.  Without references the
\* pipeline returns an empty DataFrame; otherwise both enrichments start.
PipeExtracted(f, refs) ==
    /\ pipePc[f] = "extract"
    /\ refs \in RefSets(f)
    /\ IF refs = << >>
       THEN /\ pipePc' = [pipePc EXCEPT ![f] = "done"]
            /\ pipeOpen' = [pipeOpen EXCEPT ![f] = __aexit__(pipeOpen[f])]
            /\ pipeChunk' = [pipeChunk EXCEPT ![f] = << >>]
            /\ UNCHANGED pipeRefs
       ELSE /\ pipePc' = [pipePc EXCEPT ![f] = "enrich"]
            /\ pipeRefs' = [pipeRefs EXCEPT ![f] = refs]
            /\ UNCHANGED << pipeOpen, pipeChunk >>
    /\ UNCHANGED << aggPc, p1feed, p1open, total, pipeMitre, pipeEpss, progress,
                    aggResult, csv, decodeFailed >>
    /\ UNCHANGED notAggVars

\* Pass 2: _fetch_mitre_metadata of pipeline f completes.
PipeMitreDone(f) ==
    /\ pipePc[f] = "enrich"
    /\ ~pipeMitre[f]
    /\ pipeMitre' = [pipeMitre EXCEPT ![f] = TRUE]
    /\ UNCHANGED << aggPc, p1feed, p1open, total, pipePc, pipeOpen, pipeRefs, pipeEpss,
                    pipeChunk, progress, aggResult, csv, decodeFailed >>
    /\ UNCHANGED notAggVars

\* Pass 2: _fetch_epss_scores of pipeline f completes.
PipeEpssDone(f) ==
    /\ pipePc[f] = "enrich"
    /\ ~pipeEpss[f]
    /\ pipeEpss' = [pipeEpss EXCEPT ![f] = TRUE]
    /\ UNCHANGED << aggPc, p1feed, p1open, total, pipePc, pipeOpen, pipeRefs, pipeMitre,
                    pipeChunk, progress, aggResult, csv, decodeFailed >>
    /\ UNCHANGED notAggVars

PipeJoinAfterMitre(f) ==
    /\ pipePc[f] = "enrich"
    /\ pipeMitre[f]
    /\ pipeChunk' = [pipeChunk EXCEPT ![f] = pipeRefs[f]]
    /\ progress' = progress + Len(pipeRefs[f])
    /\ pipePc' = [pipePc EXCEPT ![f] = "done"]
    /\ pipeOpen' = [pipeOpen EXCEPT ![f] = __aexit__(pipeOpen[f])]
    /\ UNCHANGED << aggPc, p1feed, p1open, total, pipeRefs, pipeMitre, pipeEpss,
                    aggResult, csv, decodeFailed >>
    /\ UNCHANGED notAggVars

\* Pass 2: gather of the two enrichments has returned; one row is built per
\* reference, each advancing the progress bar, and the engine is left.
PipeJoin(f) ==
    /\ pipePc[f] = "enrich"
    /\ pipeMitre[f] /\ pipeEpss[f]
    /\ pipeChunk' = [pipeChunk EXCEPT ![f] = pipeRefs[f]]
    /\ progress' = progress + Len(pipeRefs[f])
    /\ pipePc' = [pipePc EXCEPT ![f] = "done"]
    /\ pipeOpen' = [pipeOpen EXCEPT ![f] = __aexit__(pipeOpen[f])]
    /\ UNCHANGED << aggPc, p1feed, p1open, total, pipeRefs, pipeMitre, pipeEpss,
                    aggResult, csv, decodeFailed >>
    /\ UNCHANGED notAggVars

AggCollectNoEmptyCheck(rows) ==
    /\ aggPc = "pass2"
    /\ \A f \in Feeds : pipePc[f] = "done"
    /\ IF \A f \in Feeds : pipeChunk[f] = << >>
       THEN /\ aggPc' = "raised"
            /\ UNCHANGED << aggResult, csv >>
       ELSE /\ aggPc' = "returned"
            /\ aggResult' = rows
            /\ csv' = ListOf(rows)
    /\ UNCHANGED << p1feed, p1open, total, pipePc, pipeOpen, pipeRefs, pipeMitre,
                    pipeEpss, pipeChunk, progress, decodeFailed >>
    /\ UNCHANGED notAggVars

\* gather has every pipeline's chunk: the empty ones are dropped; with none
\* left [] is returned, otherwise the rows are concatenated, sorted, written
\* to dataframe.csv and returned; rows is the order the sort gave, one of
\* SortedByDateDesc (see AggCollectAny).
AggCollect(rows) ==
    /\ aggPc = "pass2"
    /\ \A f \in Feeds : pipePc[f] = "done"
    /\ IF \A f \in Feeds : pipeChunk[f] = << >>
       THEN /\ rows = << >>
            /\ UNCHANGED csv
       ELSE csv' = ListOf(rows)
    /\ aggResult' = rows
    /\ aggPc' = "returned"
    /\ UNCHANGED << p1feed, p1open, total, pipePc, pipeOpen, pipeRefs, pipeMitre,
                    pipeEpss, pipeChunk, progress, decodeFailed >>
    /\ UNCHANGED notAggVars

\* gather returns once every pipeline has; the sort then gives one of the
\* orders it can give.
AggCollectAny ==
    /\ aggPc = "pass2"
    /\ \A f \in Feeds : pipePc[f] = "done"
    /\ \E rows \in SortedByDateDesc(Concat(pipeChunk, 1)) : AggCollect(rows)

\* The task awaiting _fetch_all_data is cancelled.  In pass 1 the
\* CancelledError is raised at the awaited extraction, inside the `async
\* with` block, which closes the session.  In pass 2 it reaches gather, which
\* cancels every pipeline that has not finished and raises once they have.
AggCancel ==
    /\ aggPc \in {"pass1", "pass2"}
    /\ IF aggPc = "pass1"
       THEN /\ aggPc' = "cancelled"
            /\ p1open' = __aexit__(p1open)
            /\ UNCHANGED pipePc
       ELSE /\ aggPc' = "cancelling"
            /\ pipePc' = [f \in Feeds |-> IF pipePc[f] \in Running
                                           THEN "cancelreq" ELSE pipePc[f]]
            /\ UNCHANGED p1open
    /\ UNCHANGED << p1feed, total, pipeOpen, pipeRefs, pipeMitre, pipeEpss,
                    pipeChunk, progress, aggResult, csv, decodeFailed >>
    /\ UNCHANGED notAggVars

\* A cancelled pipeline is resumed with CancelledError: one that had
\* entered its engine leaves the `async with` block, one that had not run
\* yet never enters it.
PipeCancel(f) ==
    /\ pipePc[f] = "cancelreq"
    /\ pipePc' = [pipePc EXCEPT ![f] = "cancelled"]
    /\ pipeOpen' = [pipeOpen EXCEPT ![f] = __aexit__(pipeOpen[f])]
    /\ UNCHANGED << aggPc, p1feed, p1open, total, pipeRefs, pipeMitre, pipeEpss,
                    pipeChunk, progress, aggResult, csv, decodeFailed >>
    /\ UNCHANGED notAggVars

\* Every cancelled pipeline has ended: gather, and with it _fetch_all_data,
\* raises CancelledError.
AggCancelled ==
    /\ aggPc = "cancelling"
    /\ \A f \in Feeds : pipePc[f] # "cancelreq"
    /\ aggPc' = "cancelled"
    /\ UNCHANGED << p1feed, p1open, total, pipePc, pipeOpen, pipeRefs, pipeMitre,
                    pipeEpss, pipeChunk, progress, aggResult, csv, decodeFailed >>
    /\ UNCHANGED notAggVars

\* The extraction awaited in pass 1 returns what it can return for its feed.
Pass1ExtractedAny ==
    /\ aggPc = "pass1"
    /\ \E refs \in RefSets(p1feed), ok \in BOOLEAN : Pass1Extracted(refs, ok)

\* The extraction of pipeline f returns what it can return for its feed.
PipeExtractedAny(f) ==
    /\ pipePc[f] = "extract"
    /\ \E refs \in RefSets(f) : PipeExtracted(f, refs)

NextAgg ==
    \/ \E ok \in BOOLEAN : AggStart(ok)
    \/ Pass1ExtractedAny
    \/ \E f \in Feeds, ok \in BOOLEAN : PipeStart(f, ok)
    \/ \E f \in Feeds : PipeExtractedAny(f)
    \/ \E f \in Feeds : PipeMitreDone(f)
    \/ \E f \in Feeds : PipeEpssDone(f)
    \/ \E f \in Feeds : PipeJoin(f)
    \/ AggCollectAny
    \/ AggCancel
    \/ \E f \in Feeds : PipeCancel(f)
    \/ AggCancelled

(***************************************************************************)
(* The fetch client: CVE_DataProcessor_Engine._fetch_remote_data.          *)
(***************************************************************************)
\* _MAX_THREAD_POOL_SIZE
MAX_THREAD_POOL_SIZE == 500
\* the status _fetch_remote_data accepts
HTTP_OK == 200

Tasks == 1 .. MaxTasks

\* A response body: one that does not decode as JSON, or the JSON value it
\* decodes to: {} ("empty"), a non-empty object without 'containers'
\* ("noshape"), or an object with 'containers': a full record ("cna1",
\* "cna2"), an empty container ("cnaBare"), or one whose 'metrics' list is
\* empty ("cnaBad").
JsonValues == {"empty", "noshape", "cna1", "cna2", "cnaBare", "cnaBad"}
Bodies == {"undecodable"} \cup JsonValues

\* What the network can answer to one GET: a connection error, a timeout, or
\* a response with a status and a body.
Responses ==
    [net : {"ok", "error", "timeout"}, status : {HTTP_OK, 404, 500}, body : Bodies]

NoResponseYet == [net |-> "none", status |-> 0, body |-> "undecodable"]

_fetch_remote_data_any_status(session, resp) ==
    IF session # "open" \/ resp.net # "ok" \/ resp.body = "undecodable"
    THEN "empty"
    ELSE resp.body

\* What _fetch_remote_data returns for a response: without an open session
\* .get raises; a connection error or a timeout raises; _resp_buf.json()
\* raises on a body that does not decode; the bare except turns each into {}.
\* A status other than 200 gives {} whatever the body.
_fetch_remote_data(session, resp) ==
    IF session # "open" \/ resp.net # "ok"
    THEN "empty"
    ELSE IF resp.status = HTTP_OK
         THEN IF resp.body = "undecodable" THEN "empty" ELSE resp.body
         ELSE "empty"

FetchIdle ==
    /\ _net_io_handler = "none"
    /\ _thread_mutex = MAX_THREAD_POOL_SIZE
    /\ fPc = [t \in Tasks |-> "idle"]
    /\ fResp = [t \in Tasks |-> NoResponseYet]
    /\ fResult = [t \in Tasks |-> "empty"]

\* __aenter__: a session is created.
EngineEnter ==
    /\ _net_io_handler # "open"
    /\ _net_io_handler' = "open"
    /\ UNCHANGED << _thread_mutex, fPc, fResp, fResult >>
    /\ UNCHANGED notFetchVars

\* __aexit__: the session is closed.
EngineExit ==
    /\ _net_io_handler = "open"
    /\ _net_io_handler' = "closed"
    /\ UNCHANGED << _thread_mutex, fPc, fResp, fResult >>
    /\ UNCHANGED notFetchVars

\* _fetch_remote_data(url) is called: with a free permit the request is
\* sent, unless there is no open session, in which case .get raises, {} is
\* returned and the permit given back at once; without a permit the call
\* waits.
FetchStart(t) ==
    /\ fPc[t] = "idle"
    /\ IF _thread_mutex = 0
       THEN /\ fPc' = [fPc EXCEPT ![t] = "waiting"]
            /\ UNCHANGED << _thread_mutex, fResult >>
       ELSE IF _net_io_handler = "open"
       THEN /\ fPc' = [fPc EXCEPT ![t] = "inflight"]
            /\ _thread_mutex' = _thread_mutex - 1
            /\ UNCHANGED fResult
       ELSE /\ fPc' = [fPc EXCEPT ![t] = "done"]
            /\ fResult' = [fResult EXCEPT ![t] = _fetch_remote_data(_net_io_handler, NoResponseYet)]
            /\ UNCHANGED _thread_mutex
    /\ UNCHANGED << _net_io_handler, fResp >>
    /\ UNCHANGED notFetchVars

\* The network answers a call in flight: the call returns and gives its
\* permit back, which goes to a waiting call if there is one.
FetchComplete(t, resp) ==
    /\ fPc[t] = "inflight"
    /\ fResp' = [fResp EXCEPT ![t] = resp]
    /\ fResult' = [fResult EXCEPT ![t] = _fetch_remote_data(_net_io_handler, resp)]
    /\ IF \E w \in Tasks : fPc[w] = "waiting"
       THEN LET w == CHOOSE w \in Tasks : fPc[w] = "waiting"
            IN  fPc' = [fPc EXCEPT ![t] = "done", ![w] = "inflight"]
       ELSE fPc' = [fPc EXCEPT ![t] = "done"]
    /\ _thread_mutex' = IF \E w \in Tasks : fPc[w] = "waiting"
                        THEN _thread_mutex ELSE _thread_mutex + 1
    /\ UNCHANGED _net_io_handler
    /\ UNCHANGED notFetchVars

\* The caller has taken the result.
FetchTaken(t) ==
    /\ fPc[t] = "done"
    /\ fPc' = [fPc EXCEPT ![t] = "idle"]
    /\ fResp' = [fResp EXCEPT ![t] = NoResponseYet]
    /\ fResult' = [fResult EXCEPT ![t] = "empty"]
    /\ UNCHANGED << _net_io_handler, _thread_mutex >>
    /\ UNCHANGED notFetchVars

NextFetch ==
    \/ EngineEnter
    \/ EngineExit
    \/ \E t \in Tasks : FetchStart(t)
    \/ \E t \in Tasks, resp \in Responses : FetchComplete(t, resp)
    \/ \E t \in Tasks : FetchTaken(t)

(***************************************************************************)
(* The admission gates during pass 2.  _process_data_chunk creates one     *)
(* engine per feed; each engine has its own semaphore of                   *)
(* MAX_THREAD_POOL_SIZE permits, which only _fetch_remote_data takes;      *)
(* _fetch_epss_scores sends its request on the session directly.  Each     *)
(* engine also has its own TCPConnector, which gives at most               *)
(* MAX_THREAD_POOL_SIZE requests of that engine a connection at a time.    *)
(*                                                                         *)
(* The calls gathered in one wave all run up to their first suspension     *)
(* before any response is handled, so a wave starts in one step: as many   *)
(* calls as there are permits send their request, the others wait.         *)
(***************************************************************************)
Min(a, b) == IF a < b THEN a ELSE b

AdmIdle ==
    /\ admPhase = [e \in Feeds |-> "idle"]
    /\ admWaiting = [e \in Feeds |-> 0]
    /\ admInflight = [e \in Feeds |-> 0]
    /\ admEpss = [e \in Feeds |-> 0]

\* The permits of engine e's semaphore that are free.
Permits(e) == MAX_THREAD_POOL_SIZE - admInflight[e]

\* n calls of _fetch_remote_data are gathered on engine e.
Wave(e, n) ==
    /\ admInflight' = [admInflight EXCEPT ![e] = @ + Min(n, Permits(e))]
    /\ admWaiting' = [admWaiting EXCEPT ![e] = n - Min(n, Permits(e))]

\* _process_cve_batch of pipeline e: one detail fetch per feed entry.
AdmExtract(e, n) ==
    /\ admPhase[e] = "idle"
    /\ n \in {1, 2}
    /\ admPhase' = [admPhase EXCEPT ![e] = "extract"]
    /\ Wave(e, n)
    /\ UNCHANGED admEpss
    /\ UNCHANGED notAdmVars

\* One request of engine e is answered: its permit goes to a waiting call,
\* which sends its request, or is free again.
AdmFetchDone(e) ==
    /\ admInflight[e] > 0
    /\ IF admWaiting[e] > 0
       THEN /\ admWaiting' = [admWaiting EXCEPT ![e] = @ - 1]
            /\ UNCHANGED admInflight
       ELSE /\ admInflight' = [admInflight EXCEPT ![e] = @ - 1]
            /\ UNCHANGED admWaiting
    /\ UNCHANGED << admPhase, admEpss >>
    /\ UNCHANGED notAdmVars

\* The extraction of pipeline e is complete: _fetch_mitre_metadata gathers
\* one fetch per uncached id, n of them, and _fetch_epss_scores sends its
\* single request.
AdmEnrich(e, n) ==
    /\ admPhase[e] = "extract"
    /\ admInflight[e] = 0 /\ admWaiting[e] = 0
    /\ n \in {1, BurstSize}
    /\ admPhase' = [admPhase EXCEPT ![e] = "enrich"]
    /\ Wave(e, n)
    /\ admEpss' = [admEpss EXCEPT ![e] = 1]
    /\ UNCHANGED notAdmVars

\* The EPSS request of pipeline e is answered.
AdmEpssDone(e) ==
    /\ admEpss[e] = 1
    /\ admEpss' = [admEpss EXCEPT ![e] = 0]
    /\ UNCHANGED << admPhase, admWaiting, admInflight >>
    /\ UNCHANGED notAdmVars

\* Both enrichments of pipeline e are complete.
AdmPipeDone(e) ==
    /\ admPhase[e] = "enrich"
    /\ admInflight[e] = 0 /\ admWaiting[e] = 0 /\ admEpss[e] = 0
    /\ admPhase' = [admPhase EXCEPT ![e] = "done"]
    /\ UNCHANGED << admWaiting, admInflight, admEpss >>
    /\ UNCHANGED notAdmVars

RECURSIVE SumOver(_, _)
SumOver(f, S) ==
    IF S = {} THEN 0
    ELSE LET x == CHOOSE x \in S : TRUE IN f[x] + SumOver(f, S \ {x})

\* The requests of engine e that have a connection: those inside
\* session.get, up to the limit of the engine's TCPConnector.
Connected(e) == Min(admInflight[e] + admEpss[e], MAX_THREAD_POOL_SIZE)

\* The outbound requests in flight in the process.
InFlight == SumOver([e \in Feeds |-> Connected(e)], Feeds)

NextAdm ==
    \/ \E e \in Feeds, n \in {1, 2} : AdmExtract(e, n)
    \/ \E e \in Feeds : AdmFetchDone(e)
    \/ \E e \in Feeds, n \in {1, BurstSize} : AdmEnrich(e, n)
    \/ \E e \in Feeds : AdmEpssDone(e)
    \/ \E e \in Feeds : AdmPipeDone(e)

(***************************************************************************)
(* Enrichment: _fetch_mitre_metadata, _process_mitre_block and             *)
(* _fetch_epss_scores on one engine whose session is open.                 *)
(***************************************************************************)
\* _MEM_CHUNK_SIZE
MEM_CHUNK_SIZE == 100

Ids == 1 .. NumIds
IdLists == SeqsUpTo(Ids, MaxIds)

Range(q) == {q[i] : i \in 1 .. Len(q)}

\* [x for x in q if keep(x)]
RECURSIVE Filter(_, _)
Filter(q, keep) ==
    IF q = << >> THEN << >>
    ELSE IF keep[Head(q)] THEN << Head(q) >> \o Filter(Tail(q), keep)
         ELSE Filter(Tail(q), keep)

UncachedIgnoringCache(ids, cache) == ids

\* _uncached_cve_ptrs = [id for id in cve_id_array if id not in cache]
Uncached(ids, cache) == Filter(ids, [id \in Ids |-> cache[id] = "absent"])

RECURSIVE ChunkedLastFirst(_, _)
ChunkedLastFirst(q, size) ==
    IF Len(q) <= size THEN q
    ELSE ChunkedLastFirst(SubSeq(q, size + 1, Len(q)), size) \o SubSeq(q, 1, size)

RECURSIVE Chunked(_, _)
\* The fetches _task_buf holds after the chunk loop: those of
\* q[0:size], q[size:2*size], ... appended in turn.
Chunked(q, size) ==
    IF Len(q) <= size THEN q
    ELSE SubSeq(q, 1, size) \o Chunked(SubSeq(q, size + 1, Len(q)), size)

\* _process_mitre_block: the record of a block that has 'containers'.  An
\* absent field gives 'n/a'; a 'metrics' list that is present and empty
\* makes [0] raise IndexError.
_process_mitre_block(block) ==
    CASE block = "cna1" -> "rec1"
      [] block = "cna2" -> "rec2"
      [] block = "cnaBare" -> "recNA"
      [] OTHER -> "RAISE"

\* `_data_block and 'containers' in _data_block`
HasContainers(block) == block \in {"cna1", "cna2", "cnaBare", "cnaBad"}

RECURSIVE StoreBlocksCachingFailures(_, _, _, _)
StoreBlocksCachingFailures(cache, ids, blocks, i) ==
    IF i > Len(ids) \/ i > Len(blocks) THEN [cache |-> cache, raised |-> FALSE]
    ELSE StoreBlocksCachingFailures(
             [cache EXCEPT ![ids[i]] = IF HasContainers(blocks[i])
                                       THEN _process_mitre_block(blocks[i])
                                       ELSE "recNA"],
             ids, blocks, i + 1)

RECURSIVE StoreBlocks(_, _, _, _)
\* The loop over zip(_uncached_cve_ptrs, _result_buf) from position i on:
\* the cache it leaves, and whether _process_mitre_block raised on the way.
StoreBlocks(cache, ids, blocks, i) ==
    IF i > Len(ids) \/ i > Len(blocks) THEN [cache |-> cache, raised |-> FALSE]
    ELSE IF ~HasContainers(blocks[i]) THEN StoreBlocks(cache, ids, blocks, i + 1)
    ELSE IF _process_mitre_block(blocks[i]) = "RAISE"
         THEN [cache |-> cache, raised |-> TRUE]
         ELSE StoreBlocks([cache EXCEPT ![ids[i]] = _process_mitre_block(blocks[i])],
                          ids, blocks, i + 1)

MitreMapCachedOnly(ids, cache) ==
    [id \in Range(ids) \cap {x \in Ids : cache[x] # "absent"} |-> cache[id]]

\* {id: cache.get(id, {}) for id in cve_id_array}
MitreMap(ids, cache) ==
    [id \in Range(ids) |-> IF cache[id] = "absent" THEN "noRecord" ELSE cache[id]]

\* {id: cache.get(id, 'n/a') for id in cve_id_array}
EpssMap(ids, cache) ==
    [id \in Range(ids) |-> IF cache[id] = "absent" THEN "n/a" ELSE cache[id]]

NoFirst == [repeat |-> FALSE, kind |-> "none", ret |-> << >>, net |-> 0]

MitreIdle ==
    /\ _l1_mitre_cache = [id \in Ids |-> "absent"]
    /\ mPc = "idle"
    /\ mIds = << >>
    /\ mUncached = << >>
    /\ mBlocks = << >>
    /\ mRet = << >>
    /\ mNet = 0
    /\ mFirst = NoFirst

EpssIdle ==
    /\ _l1_epss_cache = [id \in Ids |-> "absent"]
    /\ ePc = "idle"
    /\ eIds = << >>
    /\ eUncached = << >>
    /\ eRet = << >>
    /\ eNet = 0
    /\ eFirst = NoFirst
    /\ eRaised = FALSE

EnrichIdle == MitreIdle /\ EpssIdle

\* _fetch_mitre_metadata(ids) is called (the call before it, if any, has
\* ended).  With nothing uncached it returns from the cache at once;
\* otherwise one fetch per uncached id is gathered.
MitreCall(ids) ==
    /\ mPc # "fetching"
    /\ EpssIdle
    /\ mIds' = ids
    /\ mFirst' = IF mPc # "idle" /\ ids = mIds
                 THEN [repeat |-> TRUE, kind |-> mPc, ret |-> mRet, net |-> mNet]
                 ELSE NoFirst
    /\ mUncached' = Uncached(ids, _l1_mitre_cache)
    /\ IF Uncached(ids, _l1_mitre_cache) = << >>
       THEN /\ mPc' = "returned"
            /\ mRet' = MitreMap(ids, _l1_mitre_cache)
            /\ mNet' = 0
            /\ mBlocks' = << >>
       ELSE /\ mPc' = "fetching"
            /\ mRet' = << >>
            /\ mNet' = Len(Chunked(mUncached', MEM_CHUNK_SIZE))
            /\ mBlocks' = [i \in 1 .. Len(Chunked(mUncached', MEM_CHUNK_SIZE)) |-> "pending"]
    /\ UNCHANGED _l1_mitre_cache
    /\ UNCHANGED epssVars
    /\ UNCHANGED notEnrichVars

\* The answers of the MITRE registry that the model draws from: a
\* connection error, a 404 with an error object, and status 200 with an
\* object without 'containers', with a full record, or with an empty
\* 'metrics' list.
RegistryAnswers ==
    {r \in Responses :
        \/ r.net = "error" /\ r.status = 500 /\ r.body = "undecodable"
        \/ r.net = "ok" /\ r.status = 404 /\ r.body = "noshape"
        \/ r.net = "ok" /\ r.status = HTTP_OK
              /\ r.body \in {"noshape", "cna1", "cna2", "cnaBad"}}

\* The registry answers the i-th fetch; _fetch_remote_data turns the
\* response into the block gather will hand back at position i.
MitreRespond(i, resp) ==
    /\ mPc = "fetching"
    /\ i \in 1 .. Len(mBlocks)
    /\ mBlocks[i] = "pending"
    /\ mBlocks' = [mBlocks EXCEPT ![i] = _fetch_remote_data("open", resp)]
    /\ UNCHANGED << _l1_mitre_cache, mPc, mIds, mUncached, mRet, mNet, mFirst >>
    /\ UNCHANGED epssVars
    /\ UNCHANGED notEnrichVars

\* gather returns: the blocks are stored and the map is returned, unless
\* _process_mitre_block raised.  The call's locals end with the call.
MitreFinish ==
    /\ mPc = "fetching"
    /\ \A i \in 1 .. Len(mBlocks) : mBlocks[i] # "pending"
    /\ LET out == StoreBlocks(_l1_mitre_cache, mUncached, mBlocks, 1)
       IN  /\ _l1_mitre_cache' = out.cache
           /\ mPc' = IF out.raised THEN "raised" ELSE "returned"
           /\ mRet' = IF out.raised THEN << >> ELSE MitreMap(mIds, out.cache)
    /\ mUncached' = << >>
    /\ mBlocks' = << >>
    /\ UNCHANGED << mIds, mNet, mFirst >>
    /\ UNCHANGED epssVars
    /\ UNCHANGED notEnrichVars

\* One element of the 'data' list of an EPSS response: the id it names and
\* its score; float() raises on "bad", and an element without 'epss' (or
\* without 'cve') is skipped.
EpssItems ==
    [cve : Ids, epss : {"s1", "s2", "bad"}] \cup [cve : {1}, epss : {"missing"}]

\* What the exploit-scoring registry can answer: a connection error or
\* timeout, a status other than 200, a body that does not decode, an object
\* without 'data', or an object with a 'data' list.
EpssResponses ==
    [kind : {"error", "non200", "undecodable", "nodata"}, data : {<< >>}]
        \cup [kind : {"data"}, data : SeqsUpTo(EpssItems, MaxItems)]

RECURSIVE StoreScores(_, _, _)
\* The loop over _data_block['data'] from position i on: the cache it
\* leaves, and whether float() raised on the way.
StoreScores(cache, items, i) ==
    IF i > Len(items) THEN [cache |-> cache, raised |-> FALSE]
    ELSE IF items[i].epss = "missing" THEN StoreScores(cache, items, i + 1)
    ELSE IF items[i].epss = "bad" THEN [cache |-> cache, raised |-> TRUE]
    ELSE StoreScores([cache EXCEPT ![items[i].cve] = items[i].epss], items, i + 1)

\* _fetch_epss_scores(ids) is called.  With nothing uncached it returns
\* from the cache at once; otherwise one request is sent.
EpssCall(ids) ==
    /\ ePc # "fetching"
    /\ MitreIdle
    /\ eIds' = ids
    /\ eFirst' = IF ePc # "idle" /\ ids = eIds
                 THEN [repeat |-> TRUE, kind |-> ePc, ret |-> eRet, net |-> eNet]
                 ELSE NoFirst
    /\ eUncached' = Uncached(ids, _l1_epss_cache)
    /\ IF Uncached(ids, _l1_epss_cache) = << >>
       THEN /\ ePc' = "returned"
            /\ eRet' = EpssMap(ids, _l1_epss_cache)
            /\ eNet' = 0
       ELSE /\ ePc' = "fetching"
            /\ eRet' = << >>
            /\ eNet' = 1
    /\ eRaised' = FALSE
    /\ UNCHANGED _l1_epss_cache
    /\ UNCHANGED mitreVars
    /\ UNCHANGED notEnrichVars

\* The registry answers: the scores of a 200 response with 'data' are
\* stored; every exception is caught; the map is returned from the cache.
EpssRespond(resp) ==
    /\ ePc = "fetching"
    /\ LET out == IF resp.kind = "data"
                  THEN StoreScores(_l1_epss_cache, resp.data, 1)
                  ELSE [cache |-> _l1_epss_cache, raised |-> FALSE]
       IN  /\ _l1_epss_cache' = out.cache
           /\ eRet' = EpssMap(eIds, out.cache)
           /\ eRaised' = (resp.kind \in {"error", "undecodable"} \/ out.raised)
    /\ ePc' = "returned"
    /\ eUncached' = << >>
    /\ UNCHANGED << eIds, eNet, eFirst >>
    /\ UNCHANGED mitreVars
    /\ UNCHANGED notEnrichVars

NextEnrich ==
    \/ \E ids \in IdLists : MitreCall(ids)
    \/ \E i \in 1 .. MaxIds, resp \in RegistryAnswers : MitreRespond(i, resp)
    \/ MitreFinish
    \/ \E ids \in IdLists : EpssCall(ids)
    \/ \E resp \in EpssResponses : EpssRespond(resp)

(***************************************************************************)
(* The chunk loop of _fetch_mitre_metadata with the chunk size as a        *)
(* parameter: one call on an engine without cache entries, every fetch     *)
(* answered, taken as one step.                                            *)
(***************************************************************************)
ChunkSizes == (1 .. MaxChunk) \cup {MEM_CHUNK_SIZE}
UrlLists == SeqsUpTo(Ids, MaxUrls) \ {<< >>}

\* What the registry answers for the URL of each id: an object without
\* 'containers' or one of two records.
Registries == [Ids -> {"noshape", "cna1", "cna2"}]

NoCache == [id \in Ids |-> "absent"]

ChunkIdle ==
    /\ kPc = "idle"
    /\ kSize = 0
    /\ kIds = << >>
    /\ kReg = [id \in Ids |-> "noshape"]
    /\ kTasks = << >>
    /\ kCache = NoCache
    /\ kRet = << >>

\* _fetch_mitre_metadata(kIds) has been called with _MEM_CHUNK_SIZE = kSize
\* on an engine without cache entries.
ChunkCalled ==
    /\ kPc = "called"
    /\ kSize \in ChunkSizes
    /\ kIds \in UrlLists
    /\ kReg \in Registries
    /\ kTasks = << >>
    /\ kCache = NoCache
    /\ kRet = << >>

\* The call runs: the chunk loop fills _task_buf, gather returns the answer
\* to each task's URL at the task's position, and the store loop pairs the
\* answers with _uncached_cve_ptrs.
ChunkedCall ==
    /\ kPc = "called"
    /\ LET tasks == Chunked(kIds, kSize)
           _result_buf == [i \in 1 .. Len(tasks) |-> kReg[tasks[i]]]
           out == StoreBlocks(kCache, kIds, _result_buf, 1)
       IN  /\ kTasks' = tasks
           /\ kCache' = out.cache
           /\ kRet' = MitreMap(kIds, out.cache)
    /\ kPc' = "returned"
    /\ UNCHANGED << kSize, kIds, kReg >>
    /\ UNCHANGED notChunkVars

NextChunk == ChunkedCall

(***************************************************************************)
(* Decoding: _decode_rss_stream on the entries feedparser gives.           *)
(***************************************************************************)
\* An entry of the parsed document: its title (with or without a part in
\* parentheses), its link (or none) and its published text; "day1" stands
\* for a text of the format '%a, %d %b %Y %H:%M:%S %z' and "bad" for one
\* strptime rejects.
FeedItems ==
    [title : {"t1", "t1 (x)"}, link : {"avis/1", "ALERTE/2", "missing"},
     published : {"day1", "bad"}]

ItemLists == SeqsUpTo(FeedItems, MaxFeedItems)

\* re.sub(r'\(.*?\)', '', title)
StripParens(title) == IF title = "t1 (x)" THEN "t1 " ELSE title

\* "Alerte" if "alerte" in link.lower() else "Avis"
TypeOf(link) == IF link = "ALERTE/2" THEN "Alerte" ELSE "Avis"

\* strptime(published, ...).date().isoformat()
IsoDate(published) == IF published = "day1" THEN "2024-01-01" ELSE "RAISE"

\* Reading an entry raises: AttributeError for a missing link, ValueError
\* for a published text of another format.
ItemRaises(item) == item.link = "missing" \/ IsoDate(item.published) = "RAISE"

DecodedEntry(item) ==
    [title |-> StripParens(item.title), link |-> item.link,
     type |-> TypeOf(item.link), date |-> IsoDate(item.published)]

RECURSIVE _decode_rss_stream_skipping(_, _)
_decode_rss_stream_skipping(items, i) ==
    IF i > Len(items) THEN [raised |-> FALSE, entries |-> << >>]
    ELSE LET rest == _decode_rss_stream_skipping(items, i + 1)
         IN  IF ItemRaises(items[i]) THEN rest
             ELSE [raised |-> FALSE,
                   entries |-> << DecodedEntry(items[i]) >> \o rest.entries]

RECURSIVE _decode_rss_stream(_, _)
\* The list comprehension over the entries from position i on: the first
\* entry that raises ends it, and the list built so far is lost.
_decode_rss_stream(items, i) ==
    IF i > Len(items) THEN [raised |-> FALSE, entries |-> << >>]
    ELSE IF ItemRaises(items[i]) THEN [raised |-> TRUE, entries |-> << >>]
    ELSE LET rest == _decode_rss_stream(items, i + 1)
         IN  IF rest.raised THEN rest
             ELSE [raised |-> FALSE,
                   entries |-> << DecodedEntry(items[i]) >> \o rest.entries]

DecodeIdle ==
    /\ dPc = "idle"
    /\ dItems = << >>
    /\ dEntries = << >>

\* _decode_rss_stream has been called and feedparser has parsed the
\* document.
DecodeCalled ==
    /\ dPc = "called"
    /\ dItems \in ItemLists
    /\ dEntries = << >>

\* The comprehension runs: the call returns its list or raises.
Decode ==
    /\ dPc = "called"
    /\ LET out == _decode_rss_stream(dItems, 1)
       IN  /\ dPc' = IF out.raised THEN "raised" ELSE "returned"
           /\ dEntries' = out.entries
    /\ UNCHANGED dItems
    /\ UNCHANGED notDecodeVars

NextDecode == Decode

(***************************************************************************)
(* Extraction: _process_cve_batch on one engine whose session is open.     *)
(***************************************************************************)
\* The entries _decode_rss_stream gives: title, type, date and link of a
\* bulletin.
FeedEntries ==
    {[title |-> "t1", type |-> "Avis", date |-> 1, link |-> "l1"],
     [title |-> "t2", type |-> "Alerte", date |-> 2, link |-> "l2"]}

EntryLists == SeqsUpTo(FeedEntries, MaxEntries)

\* An element of a 'cves' array: with a 'name' (any JSON string) or
\* without.
Named(n) == [hasName |-> TRUE, name |-> n]
NoName == [hasName |-> FALSE, name |-> ""]

\* Well-formed identifiers, and the strings found under 'name'.
CanonicalIds == {"CVE-2024-0001", "CVE-2024-0002"}
Names == CanonicalIds \cup {"N/A"}

CveArrays ==
    {<< >>,
     << Named("CVE-2024-0001") >>,
     << Named("CVE-2024-0001"), Named("CVE-2024-0002") >>,
     << Named("CVE-2024-0002"), Named("CVE-2024-0001") >>,
     << NoName, Named("CVE-2024-0001") >>,
     << Named("N/A") >>}

\* What _fetch_remote_data returns for a bulletin's detail URL: {} (also
\* for every failure), an object without 'cves', or one with a 'cves'
\* array.
Doc(kind, cves) == [kind |-> kind, cves |-> cves]
DetailDocs ==
    {Doc("empty", << >>), Doc("nocves", << >>)}
        \cup {Doc("cves", a) : a \in CveArrays}

GatherAsCompleted(arrived, n) == [i \in 1 .. n |-> arrived[i].doc]

\* asyncio.gather(*_task_queue) of n tasks that have all completed: the
\* results in the order of the tasks, whatever the order of completion.
Gather(arrived, n) ==
    [i \in 1 .. n |-> (CHOOSE a \in Range(arrived) : a.task = i).doc]

RECURSIVE CveLoopBreak(_, _, _)
CveLoopBreak(entry, cves, k) ==
    IF k > Len(cves) \/ ~cves[k].hasName THEN << >>
    ELSE << [cve_id |-> cves[k].name, title |-> entry.title,
             type |-> entry.type, date |-> entry.date, link |-> entry.link] >>
             \o CveLoopBreak(entry, cves, k + 1)

RECURSIVE CveLoop(_, _, _)
\* The loop over _data_block['cves'] from element k on: an element without
\* 'name' is skipped, every other one gives a reference with that name and
\* the entry's title, type, date and link.
CveLoop(entry, cves, k) ==
    IF k > Len(cves) THEN << >>
    ELSE IF ~cves[k].hasName THEN CveLoop(entry, cves, k + 1)
    ELSE << [cve_id |-> cves[k].name, title |-> entry.title,
             type |-> entry.type, date |-> entry.date, link |-> entry.link] >>
             \o CveLoop(entry, cves, k + 1)

RECURSIVE _cve_buf(_, _, _)
\* The loop over zip(feed_entries, _result_buf) from position i on: an
\* entry whose block is empty or has no 'cves' is skipped.
_cve_buf(feed_entries, _result_buf, i) ==
    IF i > Len(feed_entries) \/ i > Len(_result_buf) THEN << >>
    ELSE IF _result_buf[i].kind # "cves"
         THEN _cve_buf(feed_entries, _result_buf, i + 1)
         ELSE CveLoop(feed_entries[i], _result_buf[i].cves, 1)
                  \o _cve_buf(feed_entries, _result_buf, i + 1)

ExtractIdle ==
    /\ xPc = "idle"
    /\ xEntries = << >>
    /\ xArrived = << >>
    /\ xOut = << >>

\* _process_cve_batch(entries) is called (the call before it, if any, has
\* ended): one detail fetch per entry is created and gathered; gather of
\* no task returns at once.
ExtractCall(entries) ==
    /\ xPc # "fetching"
    /\ xEntries' = entries
    /\ xArrived' = << >>
    /\ xOut' = << >>
    /\ xPc' = IF entries = << >> THEN "returned" ELSE "fetching"
    /\ UNCHANGED notExtractVars

\* The detail fetch of entry i completes and returns doc.
ExtractRespond(i, doc) ==
    /\ xPc = "fetching"
    /\ i \in 1 .. Len(xEntries)
    /\ \A p \in 1 .. Len(xArrived) : xArrived[p].task # i
    /\ xArrived' = Append(xArrived, [task |-> i, doc |-> doc])
    /\ UNCHANGED << xPc, xEntries, xOut >>
    /\ UNCHANGED notExtractVars

\* Every fetch has completed: gather returns and the references are built.
ExtractFinish ==
    /\ xPc = "fetching"
    /\ Len(xArrived) = Len(xEntries)
    /\ xOut' = _cve_buf(xEntries, Gather(xArrived, Len(xEntries)), 1)
    /\ xPc' = "returned"
    /\ UNCHANGED << xEntries, xArrived >>
    /\ UNCHANGED notExtractVars

NextExtract ==
    \/ \E entries \in EntryLists : ExtractCall(entries)
    \/ \E i \in 1 .. MaxEntries, doc \in DetailDocs : ExtractRespond(i, doc)
    \/ ExtractFinish

(***************************************************************************)
(* The engines of one run: _process_data_chunk enters a new                *)
(* CVE_DataProcessor_Engine for its feed, and __init__ gives every engine  *)
(* its own empty caches.  A call changes only the caches of its engine, so *)
(* it is taken here as one step, from its filter to its store loop; the    *)
(* calls to the two registries are explored one kind at a time.            *)
(***************************************************************************)
Engines == Feeds

NoEntries == [id \in Ids |-> "absent"]

\* The ids that have an entry in a cache.
Cached(cache) == {id \in Ids : cache[id] # "absent"}

\* The ids that have an entry in the cache of some engine.
Populated(caches) == UNION {Cached(caches[e]) : e \in Engines}

NoCall == [kind |-> "none", engine |-> 0, fetched |-> {}, known |-> {}]

ProcIdle ==
    /\ engMitre = [e \in Engines |-> NoEntries]
    /\ engEpss = [e \in Engines |-> NoEntries]
    /\ lastCall = NoCall

\* What gather can hand back for the fetches of one call.
BlockLists ==
    SeqsUpTo({_fetch_remote_data("open", r) : r \in RegistryAnswers}, MaxIds)

\* _fetch_mitre_metadata(ids) on engine e, the registry's answers giving
\* blocks: the uncached ids are those absent from e's own cache.
EngineMitre(e, ids, blocks) ==
    /\ engEpss = [x \in Engines |-> NoEntries]
    /\ Len(blocks) = Len(Chunked(Uncached(ids, engMitre[e]), MEM_CHUNK_SIZE))
    /\ engMitre' = [engMitre EXCEPT
                       ![e] = StoreBlocks(@, Uncached(ids, @), blocks, 1).cache]
    /\ lastCall' = [kind |-> "mitre", engine |-> e,
                    fetched |-> Range(Uncached(ids, engMitre[e])),
                    known |-> Populated(engMitre)]
    /\ UNCHANGED engEpss
    /\ UNCHANGED notProcVars

\* _fetch_epss_scores(ids) on engine e, the registry answering resp when a
\* request is sent.
EngineEpss(e, ids, resp) ==
    /\ engMitre = [x \in Engines |-> NoEntries]
    /\ IF Uncached(ids, engEpss[e]) = << >>
       THEN /\ resp.kind = "error"
            /\ UNCHANGED engEpss
       ELSE engEpss' = [engEpss EXCEPT
                          ![e] = IF resp.kind = "data"
                                 THEN StoreScores(@, resp.data, 1).cache
                                 ELSE @]
    /\ lastCall' = [kind |-> "epss", engine |-> e,
                    fetched |-> Range(Uncached(ids, engEpss[e])),
                    known |-> Populated(engEpss)]
    /\ UNCHANGED engMitre
    /\ UNCHANGED notProcVars

NextProc ==
    \/ \E e \in Engines, ids \in IdLists, blocks \in BlockLists :
          EngineMitre(e, ids, blocks)
    \/ \E e \in Engines, ids \in IdLists, resp \in EpssResponses :
          EngineEpss(e, ids, resp)

(***************************************************************************)
(* The classifier _compute_threat_vector.  A score is held in tenths: 75   *)
(* is 7.5; every other argument is one float() rejects.                    *)
(***************************************************************************)
\* A Python value given as a score: a number n (tenths n.tenths), a string
\* float() parses ("numstr", as '7.5'), a string it rejects, or None.
Number(t) == [kind |-> "num", tenths |-> t, text |-> ""]
NumStr(t) == [kind |-> "numstr", tenths |-> t, text |-> ""]
Text(x) == [kind |-> "str", tenths |-> 0, text |-> x]
PyNone == [kind |-> "none", tenths |-> 0, text |-> ""]

ScoreTenths == (0 - Beyond) .. (100 + Beyond)

\* Arguments float() raises on: None (TypeError), 'n/a' and 'err'
\* (ValueError).
NotNumbers == {PyNone, Text("n/a"), Text("err")}

ScoreInputs ==
    {Number(t) : t \in ScoreTenths} \cup {NumStr(t) : t \in ScoreTenths}
        \cup NotNumbers

_compute_threat_vector_none_as_zero(raw_cvss_ptr) ==
    LET x == raw_cvss_ptr.tenths
    IN  IF x >= 0 /\ x <= 30 THEN "Faible"
        ELSE IF 40 <= x /\ x <= 60 THEN "Moyenne"
        ELSE IF 70 <= x /\ x <= 80 THEN "Elevee"
        ELSE IF 90 <= x /\ x <= 100 THEN "Critique"
        ELSE "n/a"

_compute_threat_vector_open_top(raw_cvss_ptr) ==
    IF raw_cvss_ptr.kind \notin {"num", "numstr"} THEN "n/a"
    ELSE LET x == raw_cvss_ptr.tenths
         IN  IF x >= 0 /\ x <= 30 THEN "Faible"
             ELSE IF 40 <= x /\ x <= 60 THEN "Moyenne"
             ELSE IF 70 <= x /\ x <= 80 THEN "Elevee"
             ELSE IF 90 <= x /\ x < 100 THEN "Critique"
             ELSE "n/a"

\* float(raw) raises on None and on a string that is no number, and the
\* except clause gives 'n/a'; otherwise the if/elif chain compares the
\* float with the integers 0, 3, 4, 6, 7, 8, 9 and 10.
_compute_threat_vector(raw_cvss_ptr) ==
    IF raw_cvss_ptr.kind \notin {"num", "numstr"} THEN "n/a"
    ELSE LET x == raw_cvss_ptr.tenths
         IN  IF x >= 0 /\ x <= 30 THEN "Faible"
             ELSE IF 40 <= x /\ x <= 60 THEN "Moyenne"
             ELSE IF 70 <= x /\ x <= 80 THEN "Elevee"
             ELSE IF 90 <= x /\ x <= 100 THEN "Critique"
             ELSE "n/a"

ClassIdle ==
    /\ cIn = PyNone
    /\ cOut = "none"

\* _compute_threat_vector(raw) is called and returns.
Classify(raw) ==
    /\ cIn' = raw
    /\ cOut' = _compute_threat_vector(raw)
    /\ UNCHANGED notClassVars

NextClass == \E raw \in ScoreInputs : Classify(raw)

(***************************************************************************)
(* The join of _process_data_chunk: one row per reference.                 *)
(***************************************************************************)
Titles == {"t1", "t2"}
Links == {"l1", "l2"}

\* The elements of _cve_blocks.
References ==
    [cve_id : Ids, title : Titles, type : {"Avis", "Alerte"}, date : Dates, link : Links]

\* The dict _process_mitre_block returned for a block; the empty record {}
\* has no key.
MitreFields(rec) ==
    CASE rec = "rec1" ->
           [cvss_score |-> Number(75), description |-> Text("d1"),
            cwe_desc |-> Text("w1"), vendor |-> Text("v1"),
            product |-> Text("p1"), versions |-> Text("1.0")]
      [] rec = "rec2" ->
           [cvss_score |-> Number(98), description |-> Text("d2"),
            cwe_desc |-> Text("w2"), vendor |-> Text("v2"),
            product |-> Text("p2"), versions |-> Text("2.0, 2.1")]
      [] rec = "recNA" ->
           [cvss_score |-> Text("n/a"), description |-> Text("n/a"),
            cwe_desc |-> Text("n/a"), vendor |-> Text("n/a"),
            product |-> Text("n/a"), versions |-> Text("")]
      [] OTHER -> << >>

\* d.get(key), None when the key is absent.
DictGetNone(d, key) == IF key \in DOMAIN d THEN d[key] ELSE PyNone

\* d.get(key, default)
DictGet(d, key, default) == IF key \in DOMAIN d THEN d[key] ELSE default

\* str(x) of a score held in the EPSS map; the string 'n/a' is its own str.
Str(x) == IF x = "n/a" THEN "n/a" ELSE "str(" \o x \o ")"

\* _data_row for the reference b, the record and the score of its id.
_data_row(b, rec, epss) ==
    [titre |-> b.title,
     type |-> b.type,
     date |-> b.date,
     cve |-> b.cve_id,
     cvss |-> DictGet(MitreFields(rec), "cvss_score", Text("n/a")),
     severity |-> _compute_threat_vector(DictGetNone(MitreFields(rec), "cvss_score")),
     cwe |-> DictGet(MitreFields(rec), "cwe_desc", Text("n/a")),
     epss |-> Str(epss),
     lien |-> b.link,
     description |-> DictGet(MitreFields(rec), "description", Text("n/a")),
     editeur |-> DictGet(MitreFields(rec), "vendor", Text("n/a")),
     produit |-> DictGet(MitreFields(rec), "product", Text("n/a")),
     versions |-> DictGet(MitreFields(rec), "versions", Text("n/a"))]

NoJoin == [joined |-> FALSE, ref |-> << >>, mitre |-> "noRecord", epss |-> "n/a"]

JoinIdle ==
    /\ jIn = NoJoin
    /\ jRow = << >>

\* One turn of the loop over _cve_blocks: rec is _mitre_data.get(id, {}),
\* epss is _epss_data.get(id, 'n/a').
Join(b, rec, epss) ==
    /\ jIn' = [joined |-> TRUE, ref |-> b, mitre |-> rec, epss |-> epss]
    /\ jRow' = _data_row(b, rec, epss)
    /\ UNCHANGED notJoinVars

NextJoin ==
    \E b \in References, rec \in {"noRecord", "rec1", "rec2", "recNA"},
       epss \in {"n/a", "s1", "s2"} : Join(b, rec, epss)

(***************************************************************************)
(* Specifications.                                                         *)
(***************************************************************************)
InitCache == CacheIdle /\ AggIdle /\ FetchIdle /\ AdmIdle /\ EnrichIdle /\ ProcIdle
    /\ JoinIdle /\ ClassIdle /\ ChunkIdle /\ ExtractIdle /\ DecodeIdle

SpecCache == InitCache /\ [][NextCache]_vars

\* A step of a call that holds the lock or has been handed it: a woken
\* waiter resumes, or fetch_func ends by returning or by raising.
CacheProgress ==
    \E c \in Callers :
        \/ Resume(c)
        \/ RefreshRaise(c)
        \/ \E d \in Datasets : RefreshReturn(c, d)

\* The event loop runs every task that is runnable, and every call of
\* fetch_func ends; at most one call at a time holds the lock or has been
\* handed it, so this is fairness for that call.
CacheFairness == WF_vars(CacheProgress)

\* The calls of _get_or_fetch made by MaxCallers requests, one call each.
NextCacheCalls ==
    \/ \E c \in Callers : Request(c)
    \/ \E c \in Callers : Resume(c)
    \/ \E c \in Callers, d \in Datasets : RefreshReturn(c, d)
    \/ \E c \in Callers : RefreshRaise(c)
    \/ Tick

SpecCacheFair == InitCache /\ [][NextCacheCalls]_vars /\ CacheFairness

InitAgg == CacheIdle /\ AggIdle /\ FetchIdle /\ AdmIdle /\ EnrichIdle /\ ProcIdle
    /\ JoinIdle /\ ClassIdle /\ ChunkIdle /\ ExtractIdle /\ DecodeIdle

SpecAgg == InitAgg /\ [][NextAgg]_vars

InitFetch == CacheIdle /\ AggIdle /\ FetchIdle /\ AdmIdle /\ EnrichIdle /\ ProcIdle
    /\ JoinIdle /\ ClassIdle /\ ChunkIdle /\ ExtractIdle /\ DecodeIdle

SpecFetch == InitFetch /\ [][NextFetch]_vars

InitAdm == CacheIdle /\ AggIdle /\ FetchIdle /\ AdmIdle /\ EnrichIdle /\ ProcIdle
    /\ JoinIdle /\ ClassIdle /\ ChunkIdle /\ ExtractIdle /\ DecodeIdle

SpecAdm == InitAdm /\ [][NextAdm]_vars

InitEnrich == CacheIdle /\ AggIdle /\ FetchIdle /\ AdmIdle /\ EnrichIdle /\ ProcIdle
    /\ JoinIdle /\ ClassIdle /\ ChunkIdle /\ ExtractIdle /\ DecodeIdle

SpecEnrich == InitEnrich /\ [][NextEnrich]_vars

InitProc == CacheIdle /\ AggIdle /\ FetchIdle /\ AdmIdle /\ EnrichIdle /\ ProcIdle
    /\ JoinIdle /\ ClassIdle /\ ChunkIdle /\ ExtractIdle /\ DecodeIdle

SpecProc == InitProc /\ [][NextProc]_vars

InitJoin ==
    CacheIdle /\ AggIdle /\ FetchIdle /\ AdmIdle /\ EnrichIdle /\ ProcIdle
    /\ JoinIdle /\ ClassIdle /\ ChunkIdle /\ ExtractIdle /\ DecodeIdle

SpecJoin == InitJoin /\ [][NextJoin]_vars

InitClass ==
    CacheIdle /\ AggIdle /\ FetchIdle /\ AdmIdle /\ EnrichIdle /\ ProcIdle
    /\ JoinIdle /\ ClassIdle /\ ChunkIdle /\ ExtractIdle /\ DecodeIdle

SpecClass == InitClass /\ [][NextClass]_vars

InitChunk ==
    CacheIdle /\ AggIdle /\ FetchIdle /\ AdmIdle /\ EnrichIdle /\ ProcIdle
    /\ JoinIdle /\ ClassIdle /\ ChunkCalled /\ ExtractIdle /\ DecodeIdle

SpecChunk == InitChunk /\ [][NextChunk]_vars

InitExtract ==
    CacheIdle /\ AggIdle /\ FetchIdle /\ AdmIdle /\ EnrichIdle /\ ProcIdle
    /\ JoinIdle /\ ClassIdle /\ ChunkIdle /\ ExtractIdle /\ DecodeIdle

SpecExtract == InitExtract /\ [][NextExtract]_vars

InitDecode ==
    CacheIdle /\ AggIdle /\ FetchIdle /\ AdmIdle /\ EnrichIdle /\ ProcIdle
    /\ JoinIdle /\ ClassIdle /\ ChunkIdle /\ ExtractIdle /\ DecodeCalled

SpecDecode == InitDecode /\ [][NextDecode]_vars

(***************************************************************************)
(* Claims about the result cache, checked under SpecCache.                 *)
(***************************************************************************)

\* C1: the calls that start while one refresh of a Stale cache is running
\* (the call that invoked it and those queued behind it) cause, once they
\* have all returned and no refresh raised, exactly one invocation of the
\* refresh function, and they all return the same snapshot.
C1_SingleFlight ==
    (cohort.members # {} /\ ~cohort.open /\ cohort.active = {} /\ ~cohort.failed)
        => /\ cohort.fetches = 1
           /\ \A a, b \in cohort.members : cohort.rets[a] = cohort.rets[b]

\* C2: at most one invocation of the refresh function is in progress.
C2_AtMostOneRefresh == Cardinality({c \in Callers : pc[c] = "fetching"}) <= 1

C2_Witness == \E c, d \in Callers : pc[c] = "fetching" /\ pc[d] = "waiting"

\* C3: a call that finds a stored snapshot of age below the TTL returns it
\* unchanged without invoking the refresh function, and a call that finds a
\* stored snapshot of age at least the TTL invokes the refresh function.
C3_TTLBoundary ==
    \A c \in Callers :
        (checked[c].seen /\ ~checked[c].data.none /\ checked[c].hasTime)
            => /\ checked[c].age < ttl_min
                    => /\ ~checked[c].invoked
                       /\ gof[c].kind = "returned" => gof[c].value = checked[c].data
               /\ checked[c].age >= ttl_min => checked[c].invoked

\* C4: a successful refresh stores its result with a new timestamp, and the
\* next call made before the TTL elapses returns the stored result without
\* invoking the refresh function, whatever the result was.
C4_FreshAfterRefresh ==
    [][ /\ \A c \in Callers :
              (refreshEnd[c] # "returned" /\ refreshEnd'[c] = "returned")
                  => (_data_ptr' = gof'[c].value /\ _timestamp' = now')
        /\ \A c \in Callers :
              (/\ ~checked[c].seen /\ checked'[c].seen
               /\ ~lastStored.none /\ now - _timestamp < ttl_min)
                  => /\ ~checked'[c].invoked
                     /\ gof'[c] = [kind |-> "returned", value |-> lastStored]
      ]_vars

\* C6: a call whose refresh function raised ends with that failure, which
\* its caller observes.
C6_RefreshFailureObserved ==
    \A c \in Callers : refreshEnd[c] = "raised" => gof[c].kind = "raised"

C6_Witness == \E c \in Callers : refreshEnd[c] = "raised" /\ ~lastStored.none

\* C7: every request is answered with a dataset, never with a failure; when
\* _get_or_fetch failed the answer is the last stored snapshot, or the empty
\* list when none was ever stored.
C7_BoundaryNeverFails ==
    [][ \A c \in Callers :
            (pc[c] # "done" /\ pc'[c] = "done")
                => /\ response'[c].kind = "json"
                   /\ gof'[c].kind = "raised" => response'[c].rows = lastStored.rows
      ]_vars

C7_Witness ==
    \E c \in Callers :
        pc[c] = "done" /\ refreshEnd[c] = "raised" /\ response[c].rows # << >>

(***************************************************************************)
(* Claims about the aggregator, checked under SpecAgg.                     *)
(***************************************************************************)

\* C5: when the decode of a feed has failed, the run still ends by returning
\* (it does not raise); the result holds no row of a feed whose decode
\* failed and every row of each other feed's row-set.
C5_FeedIsolation ==
    (decodeFailed # {} /\ aggPc \in {"returned", "raised"})
        => /\ aggPc = "returned"
           /\ \A i \in 1 .. Len(aggResult) : aggResult[i].feed \notin decodeFailed
           /\ \A f \in Feeds \ decodeFailed :
                 \A i \in 1 .. Len(pipeChunk[f]) :
                     \E j \in 1 .. Len(aggResult) : aggResult[j] = pipeChunk[f][i]

\* C15: the rows _fetch_all_data returns are in descending order of
\* publication date, and rows of equal date are in the order they have in the
\* concatenation of the pipelines' chunks.
C15_SortedStable ==
    aggPc = "returned"
        => /\ \A i, j \in 1 .. Len(aggResult) :
                 i < j => aggResult[i].date >= aggResult[j].date
           /\ \A i, j \in 1 .. Len(aggResult) :
                 (i < j /\ aggResult[i].date = aggResult[j].date)
                     => \E a, b \in 1 .. Len(Concat(pipeChunk, 1)) :
                           /\ a < b
                           /\ Concat(pipeChunk, 1)[a] = aggResult[i]
                           /\ Concat(pipeChunk, 1)[b] = aggResult[j]

\* C16: the rows _fetch_all_data returns are the rows of the pipelines'
\* chunks, each as many times as it occurs in its feed's chunk, none merged
\* and none dropped: a reference mentioned by k bulletins gives k rows.
C16_NoMergeNoDrop ==
    aggPc = "returned"
        => /\ Len(aggResult) = SumOver([f \in Feeds |-> Len(pipeChunk[f])], Feeds)
           /\ \A i \in 1 .. Len(aggResult) : aggResult[i].feed \in Feeds
           /\ \A f \in Feeds : \A k \in 1 .. Len(pipeChunk[f]) :
                 Cardinality({i \in 1 .. Len(aggResult) : aggResult[i] = pipeChunk[f][k]})
                     = Cardinality({j \in 1 .. Len(pipeChunk[f]) :
                                       pipeChunk[f][j] = pipeChunk[f][k]})

\* A run has returned the rows of two feeds, two per feed, all of one date.
C16_Witness ==
    /\ aggPc = "returned"
    /\ \A f \in Feeds : Len(pipeChunk[f]) >= 2
    /\ \A i \in 1 .. Len(aggResult) : aggResult[i].date = aggResult[1].date

\* C17: when every pipeline has returned an empty chunk, _fetch_all_data
\* returns the empty list and does not raise.
C17_AllEmptyReturnsEmpty ==
    (/\ aggPc \in {"returned", "raised"}
     /\ \A f \in Feeds : pipePc[f] = "done" /\ pipeChunk[f] = << >>)
        => aggPc = "returned" /\ aggResult = << >>

\* Pass 1 counted references, every pass-2 pipeline found none, and the run
\* has ended.
C17_Witness ==
    /\ aggPc = "returned"
    /\ total > 0
    /\ \A f \in Feeds : pipePc[f] = "done" /\ pipeChunk[f] = << >>

\* C18: when _fetch_all_data has returned, an empty result included,
\* dataframe.csv has been written and holds the returned rows, one file row
\* per returned row.
C18_SnapshotWritten ==
    aggPc = "returned" => ~csv.none /\ csv.rows = aggResult

(***************************************************************************)
(* Claims about the fetch client, checked under SpecFetch.                 *)
(***************************************************************************)

\* C8: no call of _fetch_remote_data ends by raising; a connection error, a
\* timeout, a status other than 200 or a body that does not decode gives the
\* empty object, and a result other than the empty object is the decoded
\* body of a response with status 200.
C8_FetchNeverRaises ==
    \A t \in Tasks :
        fPc[t] = "done"
            => /\ fResult[t] \in JsonValues
               /\ (\/ fResp[t].net # "ok"
                   \/ fResp[t].status # 200
                   \/ fResp[t].body = "undecodable") => fResult[t] = "empty"
               /\ fResult[t] # "empty"
                    => /\ fResp[t].net = "ok" /\ fResp[t].status = 200
                       /\ fResult[t] = fResp[t].body

C8_Witness ==
    /\ \E t \in Tasks :
          /\ fPc[t] = "done" /\ fResp[t].net = "ok" /\ fResp[t].status = 404
          /\ fResp[t].body = "cna1" /\ fResult[t] = "empty"
    /\ \E t \in Tasks :
          /\ fPc[t] = "done" /\ fResp[t].net = "ok" /\ fResp[t].status = 200
          /\ fResult[t] = "cna1"

(***************************************************************************)
(* Claims about the admission gates, checked under SpecAdm.                *)
(***************************************************************************)

\* C9: the outbound requests in flight in the process, over all pipelines
\* together, never exceed the admission limit.
C9_AdmissionLimit == InFlight <= MAX_THREAD_POOL_SIZE

(***************************************************************************)
(* Claims about the enrichment caches, checked under SpecEnrich.           *)
(***************************************************************************)

\* C10 as stated: when _fetch_mitre_metadata (respectively
\* _fetch_epss_scores) is called again with the ids of the call before it,
\* and that call returned, the second call sends no request and returns the
\* map the first call returned, whatever the registries answered.
C10_Idempotent ==
    /\ (mFirst.repeat /\ mFirst.kind = "returned")
          => mPc = "returned" /\ mNet = 0 /\ mRet = mFirst.ret
    /\ (eFirst.repeat /\ eFirst.kind = "returned")
          => ePc = "returned" /\ eNet = 0 /\ eRet = eFirst.ret

\* C10 as amended: the same, when the map the first call returned holds a
\* record (respectively a score) for every requested id, none of them
\* filled in as the empty record (respectively 'n/a').
C10_IdempotentWhenObtained ==
    /\ (/\ mFirst.repeat /\ mFirst.kind = "returned"
         /\ \A id \in DOMAIN mFirst.ret : mFirst.ret[id] # "noRecord")
          => mPc = "returned" /\ mNet = 0 /\ mRet = mFirst.ret
    /\ (/\ eFirst.repeat /\ eFirst.kind = "returned"
         /\ \A id \in DOMAIN eFirst.ret : eFirst.ret[id] # "n/a")
          => ePc = "returned" /\ eNet = 0 /\ eRet = eFirst.ret

\* The first call fetched two distinct ids and obtained both; the second
\* call has returned.
C10_Witness ==
    \/ /\ mFirst.repeat /\ mFirst.kind = "returned" /\ mFirst.net >= 2
       /\ Cardinality(Range(mIds)) >= 2
       /\ \A id \in DOMAIN mFirst.ret : mFirst.ret[id] # "noRecord"
       /\ mPc = "returned"
    \/ /\ eFirst.repeat /\ eFirst.kind = "returned" /\ eFirst.net >= 1
       /\ Cardinality(Range(eIds)) >= 2
       /\ \A id \in DOMAIN eFirst.ret : eFirst.ret[id] # "n/a"
       /\ ePc = "returned"

\* C11: no step removes or changes an entry a cache already holds: an id
\* that has a record in the MITRE cache (respectively a score in the EPSS
\* cache) has the same one after every step.
C11_AppendOnly ==
    [][ /\ \A id \in Ids :
              _l1_mitre_cache[id] # "absent"
                  => _l1_mitre_cache'[id] = _l1_mitre_cache[id]
        /\ \A id \in Ids :
              _l1_epss_cache[id] # "absent"
                  => _l1_epss_cache'[id] = _l1_epss_cache[id]
      ]_vars

\* C13: a failed fetch never makes _fetch_mitre_metadata raise: the call
\* raises only when some response was a record that _process_mitre_block
\* cannot parse.  The map it returns has exactly the requested ids as keys;
\* an id with a cache entry after the call maps to that entry, every other
\* id to the empty record.
C13_MitreMapTotal ==
    /\ [](mPc = "returned"
            => /\ DOMAIN mRet = Range(mIds)
               /\ \A id \in Range(mIds) :
                     mRet[id] = IF _l1_mitre_cache[id] = "absent"
                                THEN "noRecord"
                                ELSE _l1_mitre_cache[id])
    /\ [][(mPc = "fetching" /\ mPc' = "raised")
              => \E i \in 1 .. Len(mBlocks) : mBlocks[i] = "cnaBad"]_vars

\* A call for two ids has returned after one fetch failed and the other
\* gave a record.
C13_Witness ==
    /\ mPc = "returned" /\ mNet >= 2
    /\ \E id \in Range(mIds) : mRet[id] = "noRecord"
    /\ \E id \in Range(mIds) : mRet[id] \in {"rec1", "rec2"}

\* C14: when the request of _fetch_epss_scores ends in an exception (a
\* connection error or timeout, a body that does not decode, a score that
\* float() rejects), the call returns a map over exactly the requested ids
\* in which an id cached before the call has the score it had, and an id
\* without a score after the call has 'n/a'.
C14_EpssFailOpen ==
    [][(ePc = "fetching" /\ ePc' # "fetching" /\ eRaised')
          => /\ ePc' = "returned"
             /\ DOMAIN eRet' = Range(eIds)
             /\ \A id \in Range(eIds) :
                   /\ _l1_epss_cache[id] # "absent"
                        => eRet'[id] = _l1_epss_cache[id]
                   /\ _l1_epss_cache'[id] = "absent" => eRet'[id] = "n/a"
      ]_vars

(***************************************************************************)
(* Claims about the engines of one process, checked under SpecProc.        *)
(***************************************************************************)

\* C12: an id that some engine of the process has populated is served from
\* the cache to every pipeline: no enrichment call requests from the
\* registry an id that had an entry in an engine's cache when the call
\* began.
C12_ProcessWideCaches == lastCall.fetched \cap lastCall.known = {}

(***************************************************************************)
(* Claims about the join, checked under SpecJoin.                          *)
(***************************************************************************)

\* C19: the row of a reference whose id has the empty MITRE record has
\* 'n/a' as score, as threat band and in every field taken from MITRE, and
\* the id, title, type, link and date of the reference.
C19_JoinWithoutMitre ==
    (jIn.joined /\ jIn.mitre = "noRecord")
        => /\ jRow.cvss = Text("n/a") /\ jRow.severity = "n/a"
           /\ jRow.cwe = Text("n/a") /\ jRow.description = Text("n/a")
           /\ jRow.editeur = Text("n/a") /\ jRow.produit = Text("n/a")
           /\ jRow.versions = Text("n/a")
           /\ jRow.cve = jIn.ref.cve_id /\ jRow.titre = jIn.ref.title
           /\ jRow.type = jIn.ref.type /\ jRow.lien = jIn.ref.link
           /\ jRow.date = jIn.ref.date

\* A reference without MITRE record, but with an EPSS score, has been
\* joined.
C19_Witness ==
    /\ jIn.joined /\ jIn.mitre = "noRecord" /\ jIn.epss = "s1"
    /\ jRow.epss = Str("s1")

(***************************************************************************)
(* Claims about the classifier, checked under SpecClass.                   *)
(***************************************************************************)

\* C20: every score from 0.0 to 10.0, in steps of 0.1, is given exactly
\* the band of the documented mapping: 0.0-3.9 Faible, 4.0-6.9 Moyenne,
\* 7.0-8.9 Elevee, 9.0-10.0 Critique, and never 'n/a'.
C20_BandsPartition ==
    (cIn.kind \in {"num", "numstr"} /\ 0 <= cIn.tenths /\ cIn.tenths <= 100)
        => cOut = IF cIn.tenths <= 39 THEN "Faible"
                  ELSE IF cIn.tenths <= 69 THEN "Moyenne"
                  ELSE IF cIn.tenths <= 89 THEN "Elevee"
                  ELSE "Critique"

\* C21: the classifier returns one of the five bands for every argument;
\* an argument that is no number (None, a string float() rejects) gives
\* 'n/a', a number below 0 or above 10 gives 'n/a', and 3 gives Faible, 4
\* and 6 give Moyenne, 7 and 8 give Elevee, 9 and 10 give Critique.
C21_TotalWithBoundaries ==
    cOut # "none"
        => /\ cOut \in {"Faible", "Moyenne", "Elevee", "Critique", "n/a"}
           /\ cIn.kind \notin {"num", "numstr"} => cOut = "n/a"
           /\ (cIn.kind \in {"num", "numstr"}
                 /\ (cIn.tenths < 0 \/ cIn.tenths > 100)) => cOut = "n/a"
           /\ (cIn.kind \in {"num", "numstr"} /\ cIn.tenths = 30)
                 => cOut = "Faible"
           /\ (cIn.kind \in {"num", "numstr"} /\ cIn.tenths \in {40, 60})
                 => cOut = "Moyenne"
           /\ (cIn.kind \in {"num", "numstr"} /\ cIn.tenths \in {70, 80})
                 => cOut = "Elevee"
           /\ (cIn.kind \in {"num", "numstr"} /\ cIn.tenths \in {90, 100})
                 => cOut = "Critique"

\* The string '10.1', just above the last band, has been classified.
C21_Witness == cIn = NumStr(101) /\ cOut = "n/a"

(***************************************************************************)
(* Claims about the engine sessions of a run, checked under SpecAgg.       *)
(***************************************************************************)

\* C22: every engine session of an Aggregator run is closed once its scope
\* has ended, however it ended (return, raised failure, cancellation): the
\* pass-1 session is open only during pass 1 and a pipeline's session only
\* while the pipeline extracts or enriches, so that with _fetch_all_data
\* and every pipeline ended no session is open.
C22_SessionsReleased ==
    /\ aggPc # "pass1" => ~p1open
    /\ \A f \in Feeds :
          pipePc[f] \notin {"extract", "enrich", "cancelreq"} => ~pipeOpen[f]

\* A run was cancelled in pass 2 when the first pipeline, its session open,
\* was enriching and the second had returned; both sessions are closed.
C22_Witness ==
    /\ aggPc = "cancelled"
    /\ pipePc[1] = "cancelled" /\ pipeRefs[1] # << >>
    /\ pipePc[2] = "done"
    /\ ~pipeOpen[1] /\ ~pipeOpen[2] /\ ~p1open

(***************************************************************************)
(* Claims about the requests of the enrichments, checked under SpecEnrich. *)
(***************************************************************************)

\* C23: when _fetch_mitre_metadata stores its responses, an id whose
\* responses were all empty or without 'containers' gets no cache entry
\* (nothing is stored for it, no 'n/a' record either), and a call that
\* requests an id without cache entry fetches it.
C23_FailedLookupNotCached ==
    [][/\ (mPc = "fetching" /\ mPc' # "fetching")
            => \A id \in Range(mUncached) :
                  (\A i \in 1 .. Len(mUncached) :
                      mUncached[i] = id => ~HasContainers(mBlocks[i]))
                  => _l1_mitre_cache'[id] = "absent"
       /\ (mPc # "fetching" /\ mPc' # "idle")
            => \A id \in Range(mIds') :
                  _l1_mitre_cache[id] = "absent"
                      => mPc' = "fetching" /\ id \in Range(mUncached')
      ]_vars

\* The same ids are requested again after a call that returned the empty
\* record for id 1, and id 1 is being fetched again.
C23_Witness ==
    /\ mFirst.repeat /\ mFirst.kind = "returned"
    /\ 1 \in DOMAIN mFirst.ret /\ mFirst.ret[1] = "noRecord"
    /\ mPc = "fetching" /\ 1 \in Range(mUncached)

\* C24: while a call of _fetch_mitre_metadata awaits its fetches, it has
\* issued one fetch for each distinct requested id that had no cache entry
\* when the call began, and none for an id that had one, however often an
\* id occurs in the requested list.
C24_OneFetchPerDistinctId ==
    mPc = "fetching"
        => /\ Range(mUncached)
                 = {id \in Range(mIds) : _l1_mitre_cache[id] = "absent"}
           /\ mNet = Cardinality(Range(mUncached))

\* C26: _fetch_epss_scores sends no request when every requested id has a
\* score in the cache, and otherwise one request, for the requested ids
\* without score: while it awaits the answer exactly one request is out, it
\* names exactly those ids, and there is at least one; a call that returned
\* without request had every id in the cache.
C26_OneEpssRequest ==
    /\ eNet \in {0, 1}
    /\ ePc = "fetching"
          => /\ eNet = 1
             /\ eUncached # << >>
             /\ Range(eUncached)
                   = {id \in Range(eIds) : _l1_epss_cache[id] = "absent"}
    /\ (ePc = "returned" /\ eNet = 0)
          => \A id \in Range(eIds) : _l1_epss_cache[id] # "absent"

\* A call for a cached and an uncached id awaits its one request, which
\* names the uncached id only.
C26_Witness ==
    /\ ePc = "fetching" /\ eNet = 1
    /\ eIds = << 1, 2 >> /\ _l1_epss_cache[1] # "absent"
    /\ eUncached = << 2 >>

\* C27: a call of _fetch_epss_scores whose request ends in an exception (a
\* connection error or timeout, a body that does not decode, a score that
\* float() rejects) leaves the EPSS cache as it was when the call began.
C27_EpssExceptionKeepsCache ==
    [][(ePc = "fetching" /\ ePc' # "fetching" /\ eRaised')
          => _l1_epss_cache' = _l1_epss_cache]_vars

(***************************************************************************)
(* Claims about the chunk loop, checked under SpecChunk.                   *)
(***************************************************************************)

\* C25: whatever the chunk size (1, 2, _MEM_CHUNK_SIZE) and the length of
\* the list of uncached ids, the answer at each position is the one to the
\* URL of the id it is stored under, and the cache and the returned map are
\* those of a call that puts all the ids in one chunk.
C25_ChunkingTransparent ==
    kPc = "returned"
        => LET one == [i \in 1 .. Len(kIds) |-> kReg[kIds[i]]]
               whole == StoreBlocks(NoCache, kIds, one, 1).cache
           IN  /\ kTasks = kIds
               /\ kCache = whole
               /\ kRet = MitreMap(kIds, whole)
               /\ \A id \in Range(kIds) :
                     kCache[id] = IF HasContainers(kReg[id])
                                  THEN _process_mitre_block(kReg[id])
                                  ELSE "absent"

\* A list longer than the chunk size, with different ids at its ends, has
\* been fetched and each end has its own record.
C25_Witness ==
    /\ kPc = "returned" /\ Len(kIds) > kSize
    /\ kIds[1] # kIds[Len(kIds)]
    /\ kCache[kIds[1]] = "rec1" /\ kCache[kIds[Len(kIds)]] = "rec2"

(***************************************************************************)
(* Claims about the extraction, checked under SpecExtract.                 *)
(***************************************************************************)
\* What the detail fetch of entry i returned.
Answer(i) == (CHOOSE a \in Range(xArrived) : a.task = i).doc

\* The places <<i, k>> of the elements with a 'name': entry i, element k of
\* its 'cves' array.
NamedPlaces ==
    UNION {{<< i, k >> : k \in {j \in 1 .. Len(Answer(i).cves) :
                                    Answer(i).cves[j].hasName}} :
              i \in 1 .. Len(xEntries)}

\* The reference of the element at place a.
RefAt(a) ==
    [cve_id |-> Answer(a[1]).cves[a[2]].name, title |-> xEntries[a[1]].title,
     type |-> xEntries[a[1]].type, date |-> xEntries[a[1]].date,
     link |-> xEntries[a[1]].link]

\* C28: the list _process_cve_batch returns holds each reference as often
\* as there are elements with a 'name' that give it (the name as id, with
\* title, type, date and link of the element's entry) and nothing else; an
\* entry whose block is empty or has no 'cves' gives none, and the call
\* returns.
C28_OneReferencePerNamedElement ==
    xPc = "returned"
        => /\ Len(xOut) = Cardinality(NamedPlaces)
           /\ \A a \in NamedPlaces :
                 Cardinality({p \in 1 .. Len(xOut) : xOut[p] = RefAt(a)})
                     = Cardinality({b \in NamedPlaces : RefAt(b) = RefAt(a)})

\* A call for two entries has returned one reference: one block was empty,
\* the other had an element without 'name' before one with a name.
C28_Witness ==
    /\ xPc = "returned" /\ Len(xEntries) = MaxEntries
    /\ \E i, j \in 1 .. Len(xEntries) :
          /\ Answer(i).kind = "empty"
          /\ Answer(j).kind = "cves" /\ Len(Answer(j).cves) > 1
          /\ ~Answer(j).cves[1].hasName
    /\ Len(xOut) = 1

\* C29: the returned list has the references in the order of the entries
\* and, within an entry, of its 'cves' array, whatever the order in which
\* the fetches completed: the reference of a place stands after exactly the
\* references of the places before it.
C29_InputOrder ==
    xPc = "returned"
        => /\ Len(xOut) = Cardinality(NamedPlaces)
           /\ \A a \in NamedPlaces :
                 xOut[1 + Cardinality({b \in NamedPlaces :
                                         \/ b[1] < a[1]
                                         \/ b[1] = a[1] /\ b[2] < a[2]})]
                     = RefAt(a)

\* The fetch of the last entry completed first, and the references of the
\* first entry stand before those of the last.
C29_Witness ==
    /\ xPc = "returned" /\ Len(xEntries) > 1
    /\ xArrived[1].task = Len(xEntries)
    /\ xEntries[1] # xEntries[Len(xEntries)]
    /\ Len(xOut) > 1
    /\ xOut[1].link = xEntries[1].link
    /\ xOut[Len(xOut)].link = xEntries[Len(xEntries)].link

\* C30: every reference _process_cve_batch returns has a well-formed
\* identifier.
C30_WellFormedIds ==
    xPc = "returned"
        => \A p \in 1 .. Len(xOut) : xOut[p].cve_id \in CanonicalIds

(***************************************************************************)
(* Claims about the passes of a run, checked under SpecAgg.                *)
(***************************************************************************)

\* C31: a pipeline has rows only when both its enrichment calls have
\* completed, and the progress bar counts only the rows of such pipelines:
\* while a call of a pipeline is outstanding the pipeline has no row and
\* has not advanced the bar.
C31_JoinAfterBothEnrichments ==
    /\ \A f \in Feeds :
          pipeChunk[f] # << >> => pipeMitre[f] /\ pipeEpss[f]
    /\ progress
          = SumOver([f \in Feeds |-> IF pipeMitre[f] /\ pipeEpss[f]
                                     THEN Len(pipeChunk[f]) ELSE 0], Feeds)

\* The first pipeline has joined its rows; the second, whose EPSS call
\* completed before its MITRE call, is still waiting and has none.
C31_Witness ==
    /\ pipePc[1] = "done" /\ pipeChunk[1] # << >>
    /\ pipePc[2] = "enrich" /\ pipeEpss[2] /\ ~pipeMitre[2]
    /\ pipeChunk[2] = << >>
    /\ progress = Len(pipeChunk[1])

\* C32: a pipeline whose extraction gave no reference ends by returning,
\* with no row and neither enrichment call made, and no row of the list
\* _fetch_all_data returns comes from it.
C32_NoReferencesNoEnrichment ==
    \A f \in Feeds :
        (pipePc[f] \in {"enrich", "done"} /\ pipeRefs[f] = << >>)
            => /\ pipePc[f] = "done"
               /\ pipeChunk[f] = << >>
               /\ ~pipeMitre[f] /\ ~pipeEpss[f]
               /\ aggPc = "returned"
                     => \A p \in 1 .. Len(aggResult) : aggResult[p].feed # f

\* The first feed gave no reference and the second gave some: the run
\* returned the rows of the second.
C32_Witness ==
    /\ aggPc = "returned"
    /\ pipePc[1] = "done" /\ pipeRefs[1] = << >>
    /\ pipeChunk[2] # << >> /\ Len(aggResult) = Len(pipeChunk[2])

\* C33: until pass 1 has ended no pipeline exists and no enrichment call
\* has been made, and a pipeline exists only when pass 1 has decoded and
\* extracted every feed and left its engine, the total being summed.
C33_Pass1BeforePass2 ==
    /\ (aggPc \in {"idle", "pass1"} \/ p1open \/ p1feed < NFeeds)
          => \A f \in Feeds :
                /\ pipePc[f] = "none"
                /\ ~pipeMitre[f] /\ ~pipeEpss[f]
                /\ pipeRefs[f] = << >> /\ pipeChunk[f] = << >>
    /\ (\E f \in Feeds : pipePc[f] # "none")
          => p1feed = NFeeds /\ ~p1open /\ aggPc \notin {"idle", "pass1"}

\* Pass 1 counted some references and ended; in pass 2 a MITRE call of a
\* pipeline has completed.
C33_Witness ==
    /\ aggPc = "pass2" /\ p1feed = NFeeds /\ total > 0
    /\ \E f \in Feeds : pipePc[f] = "enrich" /\ pipeMitre[f]

\* C34: the progress bar never shows more rows than the total summed in
\* pass 1, and shows exactly that total once every pipeline has returned.
C34_ProgressMeetsTotal ==
    /\ progress <= total
    /\ (\A f \in Feeds : pipePc[f] = "done") => progress = total

(***************************************************************************)
(* Claims about decoding, checked under SpecDecode.                        *)
(***************************************************************************)

\* C35: a call of _decode_rss_stream on a document with an entry whose
\* published text is malformed or whose link is missing raises and gives no
\* entry, those of the well-formed entries included; a call on a document
\* without such an entry returns one entry per item.
C35_DecodeFailFast ==
    dPc \in {"returned", "raised"}
        => IF \E i \in 1 .. Len(dItems) :
                 dItems[i].link = "missing" \/ dItems[i].published = "bad"
           THEN dPc = "raised" /\ dEntries = << >>
           ELSE dPc = "returned" /\ Len(dEntries) = Len(dItems)

\* A document whose first entry is well-formed and whose last has a
\* malformed date has been decoded: the call raised.
C35_Witness ==
    /\ dPc = "raised" /\ Len(dItems) > 1
    /\ dItems[1].link # "missing" /\ dItems[1].published # "bad"
    /\ dItems[Len(dItems)].published = "bad"
    /\ dEntries = << >>

(***************************************************************************)
(* Claims about a failing refresh and about waiting, checked under         *)
(* SpecCache and SpecCacheFair.                                            *)
(***************************************************************************)

\* C36: the step in which fetch_func raises inside _get_or_fetch leaves
\* _data_ptr and _timestamp as they were and leaves the lock free.
C36_RaiseLeavesCache ==
    [][\A c \in Callers :
          (pc[c] = "fetching" /\ refreshEnd'[c] = "raised")
              => /\ _data_ptr' = _data_ptr
                 /\ _timestamp' = _timestamp
                 /\ ~locked'
      ]_vars

\* After the refresh of one call raised, with a snapshot stored earlier
\* still in place, another call holds the lock and has invoked fetch_func.
C36_Witness ==
    \E c, c2 \in Callers :
        /\ c # c2
        /\ pc[c] = "done" /\ refreshEnd[c] = "raised"
        /\ pc[c2] = "fetching" /\ locked
        /\ _data_ptr # None /\ _data_ptr = lastStored

\* C37: every call of _get_or_fetch that waits for the lock or for
\* fetch_func eventually ends, returning a snapshot or raising.
C37_NoCallerWaitsForever ==
    \A c \in Callers :
        (pc[c] \in {"waiting", "woken", "fetching"})
            ~> (pc[c] = "done" /\ gof[c].kind \in {"returned", "raised"})

\* A call that had to wait for the lock while the refresh of another call
\* was raising has ended.
C37_Witness ==
    \E c, c2 \in Callers :
        /\ c # c2
        /\ pc[c] = "done" /\ refreshEnd[c] = "raised"
        /\ pc[c2] = "done" /\ checked[c2].seen /\ cohort.members = {c, c2}

====
